---- MODULE Spec2Model ----
(***************************************************************************)
(* Model of the staged research pipeline of Maclay-3.0:                    *)
(*   ResearchProcessor._call_deepseek      (ModelClient.generate)          *)
(*   ResearchProcessor._execute_with_retry (StageRunner)                   *)
(*   the four stage bodies and the progress updates they emit              *)
(*   ResearchProcessor.process_research    (the stage sequence)            *)
(* One pipeline run is one behaviour.  The inference endpoint is the       *)
(* environment: it answers each request with 503, with a failure, or with  *)
(* a generated text.                                                       *)
(***************************************************************************)
EXTENDS Integers, Sequences, FiniteSets, TLC

VARIABLES
    pc,          \* position of the run in the code
    stage,       \* index of the stage being run, 1..4
    sattempt,    \* `attempt` of _execute_with_retry
    events,      \* what _execute_with_retry did for the current stage, in order
    attempt,     \* `attempt` of _call_deepseek
    n503,        \* 503 responses received by the current call (saturates)
    requests,    \* requests posted by the current call
    sleeps,      \* backoff sleeps of the current call, in order
    sleepFor,    \* length of the sleep in progress
    callResult,  \* text returned by the call that last returned
    exc,         \* `e`: kind of the exception the call caught last
    updates,     \* every message passed to send_update, in order
    stageResult, \* what the stage function / _execute_with_retry returned
    marketData,  \* result of collect_market_data
    insights,    \* result of collect_local_documents_insights
    cases,       \* result of analyze_cases
    report,      \* result of generate_report
    result,      \* what process_research returned
    overloaded,  \* the endpoint answers 503 to every request
    nDocs,       \* number of local PDF files
    pool,        \* working verified links carried by the cases
    connected,   \* the client's channel is in the registry and open
    lost,        \* some update was not delivered
    files,       \* basenames in files_payload, in order
    callKind,    \* which code awaits _call_deepseek: a stage body or the enhancement
    draft,       \* report_content handed to enhance_report_with_links
    reportSteps, \* functions _generate_report_internal applied to the report, in order
    bg,          \* position of process_research_background after the pipeline
    created,     \* calls of ReportService.create_report
    completion,  \* completion messages passed to manager.send_message, in order
    stageRequests, \* requests not answered 503 of the stage's own model call,
                   \* over the invocations of the stage, until the call returns
    vpc,            \* position in verify_report_links
    report_input,   \* the report verify_report_links was called with
    report_content, \* `report_content` of verify_report_links
    links,          \* `links`: the (text, url) pairs found in the report
    vi,             \* index of the link the loop of verify_report_links is at
    verified_links, \* `verified_links`
    broken_links,   \* `broken_links`
    outcomes,       \* how the check of each link ended, in order
    heads,          \* indexes of the links a HEAD request was issued for, in order
    xpc,             \* position in extract_companies_from_text
    lines,           \* `lines`: text.split of the text given
    xi,              \* index of the line the loop is at
    current_company, \* `current_company`
    companies,       \* `companies`
    fn,     \* the text function that is running, if one is studied alone
    fpc,    \* its position
    arg,    \* its argument
    locals, \* its local variables
    ret,    \* what it returned
    active_connections, \* ConnectionManager.active_connections
    channels            \* the websocket channels: state and client id of each

vars == <<pc, stage, sattempt, events, attempt, n503, requests, sleeps,
          sleepFor, callResult, updates, stageResult, marketData, insights,
          cases, report, result, overloaded, nDocs, pool, connected, lost,
          files, callKind, draft, reportSteps, bg, created, completion,
          stageRequests,
          vpc, report_input, report_content, links, vi, verified_links,
          broken_links, outcomes, heads,
          xpc, lines, xi, current_company, companies,
          exc, fn, fpc, arg, locals, ret, active_connections, channels>>

callVars == <<attempt, n503, requests, sleeps, sleepFor, callResult, exc>>
dataVars == <<marketData, insights, cases, report>>
envVars == <<overloaded, nDocs, pool>>
chanVars == <<connected, lost>>
repVars == <<files, callKind, draft, reportSteps>>
bgVars == <<bg, created, completion>>
pipeVars == <<pc, stage, sattempt, events, callVars, updates, stageResult,
              dataVars, result, envVars, chanVars, repVars, bgVars,
              stageRequests>>
verVars == <<vpc, report_input, report_content, links, vi, verified_links,
             broken_links, outcomes, heads>>
extVars == <<xpc, lines, xi, current_company, companies>>
\* state of the text functions, which the steps of a pipeline run leave alone
frameVars == <<fn, fpc, arg, locals, ret>>
regVars == <<active_connections, channels>>
libVars == <<verVars, extVars, frameVars, regVars>>

----------------------------------------------------------------------------
(* Bounds of the model *)

Max503 == 2
MaxDocs == 2

\* a generated text of blank lines only
BLANK_TEXT == "\n"

(* Texts the endpoint can generate: "" is the empty generation, BLANK_TEXT *)
(* one without content, "txt" one with content.                           *)
Texts == {"", BLANK_TEXT, "txt"}

NONE == "<none>"
DEGRADED == "<degraded>"
FAILURE == "<failure>"
PARSED == "<parsed>"

(* Sizes of the pool of working verified links the cases can carry. *)
Pools == {0, 1}

\* the dict {}: a record with no key
NoCompany == [k \in {} |-> <<>>]

\* verify_report_links is not running
VerifyIdle ==
    /\ vpc = "idle"
    /\ report_input = <<>>
    /\ report_content = <<>>
    /\ links = <<>>
    /\ vi = 0
    /\ verified_links = <<>>
    /\ broken_links = <<>>
    /\ outcomes = <<>>
    /\ heads = <<>>

\* no text function is studied alone
FrameIdle ==
    /\ fn = "none"
    /\ fpc = "idle"
    /\ arg = <<>>
    /\ locals = <<>>
    /\ ret = <<>>

\* the registry is empty and no channel was opened
RegistryIdle ==
    /\ active_connections = <<>>
    /\ channels = <<>>

\* extract_companies_from_text is not running
ExtractIdle ==
    /\ xpc = "idle"
    /\ lines = <<>>
    /\ xi = 0
    /\ current_company = NoCompany
    /\ companies = <<>>

----------------------------------------------------------------------------
(* Program constants *)

\* _call_deepseek: max_retries = 5
call_max_retries == 5

\* a wrapper that gives up one attempt early
stage_max_retries_two == 3 - 1

\* _execute_with_retry: max_retries: int = 3
stage_max_retries == 3

\* _call_deepseek: await asyncio.sleep(5) on a 503
overload_sleep == 5

Stages == <<"data_collection", "local_documents", "case_analysis",
            "report_generation">>

NumStages == Len(Stages)

----------------------------------------------------------------------------
(* Helpers *)

Upd(s, st, p) == [stage |-> s, status |-> st, progress |-> p]

Min(a, b) == IF a < b THEN a ELSE b

\* a backoff that grows linearly instead of doubling
backoff_linear(a) == 2 * a

\* asyncio.sleep(2 ** attempt) in _call_deepseek
backoff(a) == 2 ^ a

\* a stage backoff that is one doubling ahead
stage_backoff_shifted(a) == 2 ^ (a + 1)

\* asyncio.sleep(2 ** attempt) in _execute_with_retry
stage_backoff(a) == 2 ^ a

\* a 503 that is counted like any other failure
attempt_after_503_consumes(a) == a + 1

\* `attempt` after a 503 response: the `continue` leaves it alone
attempt_after_503(a) == a

\* an except branch that does not count the failure
attempt_after_exception_kept(a) == a
\* `attempt += 1` in the except branch of _call_deepseek
attempt_after_exception(a) == a + 1

\* an off-by-one exhaustion test
call_exhausted_off_by_one(a) == a > call_max_retries

\* an except branch that never re-raises
call_exhausted_never(a) == FALSE

\* `if attempt >= max_retries: raise e`
call_exhausted(a) == a >= call_max_retries

\* a per-document progress that counts the documents still to read
doc_progress_remaining(i, n) == (((n - i) * 40) \div n) + 10

\* a per-document progress on the scale of the whole stage
doc_progress_percent(i, n) == ((i * 100) \div n) + 10

\* progress = int((i / len(pdf_files)) * 40) + 10
doc_progress(i, n) == ((i * 40) \div n) + 10

\* await self.send_update("local_documents", "active", progress, ...) of
\* document i (counted from 0) of n
doc_update(i, n) == Upd("local_documents", "active", doc_progress(i, n))

\* the updates a stage body sends before it awaits _call_deepseek; those
\* of local_documents come after its loop over the documents
pre_call_updates(s) ==
    CASE s = "data_collection" ->
            <<Upd(s, "active", 10), Upd(s, "active", 30), Upd(s, "active", 40)>>
      [] s = "local_documents" ->
            <<Upd(s, "active", 55), Upd(s, "active", 65), Upd(s, "active", 70)>>
      [] s = "case_analysis" ->
            <<Upd(s, "active", 10), Upd(s, "active", 30)>>
      [] s = "report_generation" ->
            <<Upd(s, "active", 10), Upd(s, "active", 30)>>

\* the updates a stage body sends after _call_deepseek returned
post_call_updates(s) ==
    CASE s = "data_collection" ->
            <<Upd(s, "active", 70), Upd(s, "active", 90), Upd(s, "completed", 100)>>
      [] s = "local_documents" ->
            <<Upd(s, "active", 85), Upd(s, "active", 90), Upd(s, "completed", 100)>>
      [] s = "case_analysis" ->
            <<Upd(s, "active", 70), Upd(s, "active", 90), Upd(s, "completed", 100)>>
      [] s = "report_generation" ->
            <<Upd(s, "active", 70), Upd(s, "active", 90), Upd(s, "active", 95),
              Upd(s, "completed", 100)>>

\* the updates a stage body sends in its except branch
except_updates(s) ==
    CASE s = "data_collection" -> <<Upd(s, "error", 0)>>
      [] s = "local_documents" -> <<Upd(s, "error", 0)>>
      [] s = "case_analysis" -> <<>>
      [] s = "report_generation" -> <<>>


\* the update _execute_with_retry sends at the start of a retry attempt
retry_update(s) == Upd(s, "active", 0)

\* an exhaustion that is reported as one more active update
exhausted_update_active(s) == Upd(s, "active", 0)

\* the update sent when the retries of a stage are exhausted
exhausted_update(s) == Upd(s, "error", 0)

REPORT_ERROR_TEXT == "<report generation error>"

\* extract_report_content: response_text or <the fixed Russian error text>
extract_report_content(t) == IF t = "" THEN REPORT_ERROR_TEXT ELSE t

\* enhance_report_with_links: `if not all_verified_links: return report_content`
pool_empty(n) == n = 0

\* an enhancement that keeps whatever the model returned
enhance_result_unchecked(e, r) == e

\* enhance_report_with_links: `if enhanced_content: return enhanced_content`,
\* else the report it was given
enhance_result(e, r) == IF e # "" THEN e ELSE r

\* clean_report_content: the whitespace clean-up of the report, which drops
\* the blank lines at the start of the text: of a text of blank lines
\* nothing is left, an empty text stays empty and a text with content
\* keeps it
clean_report_content(t) == IF t = BLANK_TEXT THEN "" ELSE t

\* a progress delivery whose failure reaches the caller of send_update
delivery_failure_raises_always == TRUE

\* manager.send_message: a failed delivery is swallowed, not raised
delivery_failure_raises == FALSE

\* send_update for each message of us, in order
Sent(us) ==
    /\ updates' = updates \o us
    /\ lost' = (lost \/ (~connected /\ us # <<>>))
    /\ UNCHANGED connected

\* a stage body that raises where the others swallow
body_swallows_none(s) == FALSE

\* the except branch of _collect_local_documents_insights_internal returns
\* the degraded result; the other stage bodies raise
body_swallows(s) == s = "local_documents"

\* the functions _generate_report_internal applies after the model call
REPORT_STEPS == <<"extract_report_content", "enhance_report_with_links",
                  "clean_report_content">>

----------------------------------------------------------------------------
Init ==
    /\ pc = "attempt"
    /\ stage = 1
    /\ sattempt = 0
    /\ events = <<>>
    /\ attempt = 0
    /\ n503 = 0
    /\ requests = 0
    /\ sleeps = <<>>
    /\ sleepFor = 0
    /\ callResult = NONE
    /\ updates = <<>>
    /\ stageResult = NONE
    /\ marketData = NONE
    /\ insights = NONE
    /\ cases = NONE
    /\ report = NONE
    /\ result = NONE
    /\ overloaded \in BOOLEAN
    /\ nDocs \in 1..MaxDocs
    /\ pool \in Pools
    /\ connected = TRUE
    /\ lost = FALSE
    /\ files = <<>>
    /\ callKind = "stage"
    /\ draft = NONE
    /\ reportSteps = <<>>
    /\ exc = NONE
    /\ bg = "awaiting"
    /\ created = 0
    /\ completion = <<>>
    /\ stageRequests = 0
    /\ VerifyIdle
    /\ ExtractIdle
    /\ FrameIdle
    /\ RegistryIdle

----------------------------------------------------------------------------
(* _execute_with_retry: for attempt in range(max_retries) *)

Ev(e, k) == [ev |-> e, k |-> k]

\* loop head of an attempt: `if attempt > 0: send_update(...); sleep(2 ** attempt)`
BeginAttempt ==
    /\ pc = "attempt"
    /\ sattempt < stage_max_retries
    /\ IF sattempt > 0
       THEN /\ Sent(<<retry_update(Stages[stage])>>)
            /\ events' = events \o <<Ev("update", sattempt),
                                     Ev("wait", stage_backoff(sattempt))>>
            /\ sleepFor' = stage_backoff(sattempt)
            /\ pc' = "stage_sleep"
       ELSE /\ pc' = "invoke"
            /\ UNCHANGED <<updates, events, sleepFor, chanVars>>
    /\ UNCHANGED <<stage, sattempt, attempt, n503, requests, sleeps,
                   callResult, exc, stageResult, dataVars, result, envVars, libVars, bgVars, stageRequests,
                   repVars>>

\* the backoff sleep of a retry attempt is over
StageWake ==
    /\ pc = "stage_sleep"
    /\ pc' = "invoke"
    /\ sleepFor' = 0
    /\ UNCHANGED <<stage, sattempt, events, attempt, n503, requests, sleeps,
                   callResult, exc, updates, stageResult, dataVars, result,
                   envVars, libVars, bgVars, stageRequests,
                   chanVars, repVars>>

\* _call_deepseek is entered: attempt = 0
StartCall(kind) ==
    /\ attempt' = 0
    /\ n503' = 0
    /\ requests' = 0
    /\ sleeps' = <<>>
    /\ sleepFor' = 0
    /\ callResult' = NONE
    /\ exc' = NONE
    /\ callKind' = kind
    /\ pc' = "request"

\* `result = await func(...)`: the stage body runs up to its next
\* suspension, which is the model call, or for local_documents the
\* asyncio.sleep(0.2) that follows the first document; a send_update that
\* raised would end the attempt at its first update
InvokeStage ==
    /\ pc = "invoke"
    /\ events' = Append(events, Ev("invoke", sattempt))
    /\ IF Stages[stage] = "local_documents"
       THEN /\ Sent(<<doc_update(0, nDocs)>>)
            /\ IF ~connected /\ delivery_failure_raises
               THEN /\ pc' = "stage_exc"
                    /\ files' = <<>>
               ELSE /\ pc' = "doc_sleep"
                    /\ files' = <<1>>
            /\ UNCHANGED <<callVars, callKind, reportSteps>>
       ELSE IF ~connected /\ delivery_failure_raises
       THEN /\ Sent(<<Head(pre_call_updates(Stages[stage]))>>)
            /\ pc' = "stage_exc"
            /\ UNCHANGED <<callVars, files, callKind, reportSteps>>
       ELSE /\ Sent(pre_call_updates(Stages[stage]))
            /\ StartCall("stage")
            /\ reportSteps' = <<>>
            /\ UNCHANGED files
    /\ UNCHANGED <<stage, sattempt, stageResult, dataVars, result, envVars, libVars, bgVars, stageRequests,
                   draft>>

\* `await asyncio.sleep(0.2)` after a document is over: the loop goes on to
\* the next document and its sleep, or, after the last one, the body sends
\* the updates 55, 65 and 70 and awaits _call_deepseek
DocumentWake ==
    /\ pc = "doc_sleep"
    /\ IF Len(files) < nDocs
       THEN /\ Sent(<<doc_update(Len(files), nDocs)>>)
            /\ IF ~connected /\ delivery_failure_raises
               THEN /\ pc' = "stage_exc"
                    /\ UNCHANGED files
               ELSE /\ pc' = "doc_sleep"
                    /\ files' = Append(files, Len(files) + 1)
            /\ UNCHANGED <<callVars, callKind, reportSteps>>
       ELSE IF ~connected /\ delivery_failure_raises
       THEN /\ Sent(<<Head(pre_call_updates(Stages[stage]))>>)
            /\ pc' = "stage_exc"
            /\ UNCHANGED <<callVars, files, callKind, reportSteps>>
       ELSE /\ Sent(pre_call_updates(Stages[stage]))
            /\ StartCall("stage")
            /\ reportSteps' = <<>>
            /\ UNCHANGED files
    /\ UNCHANGED <<stage, sattempt, events, stageResult, dataVars, result,
                   envVars, libVars, bgVars, stageRequests, draft>>

----------------------------------------------------------------------------
(* _call_deepseek: while attempt < max_retries *)

MaxRequests == Max503 + call_max_retries

\* the count of a stage's requests stops one above the two budgets multiplied
MaxStageRequests == stage_max_retries * call_max_retries + 1

\* client.post was answered, not by 503: one more request of the stage's call
count_request(n, kind) ==
    IF kind = "stage" THEN Min(n + 1, MaxStageRequests) ELSE n

\* what a request can fail with: raise_for_status on a 4xx status; a 5xx
\* status other than 503, a network error or a body that is not JSON
ErrorKinds == {"http_4xx", "transient"}

\* a handler that lets the client errors through
caught_unless_client_error(kind) == kind # "http_4xx"

\* `except Exception as e` catches every kind of failure
caught_for_retry(kind) == TRUE

\* response.status_code == 503: sleep 5 and continue
Respond503 ==
    /\ pc = "request"
    /\ attempt < call_max_retries
    /\ overloaded \/ n503 < Max503
    /\ requests' = Min(requests + 1, MaxRequests)
    /\ n503' = Min(n503 + 1, Max503)
    /\ attempt' = attempt_after_503(attempt)
    /\ sleepFor' = overload_sleep
    /\ pc' = "sleep"
    /\ UNCHANGED <<stage, sattempt, events, sleeps, callResult, exc, updates,
                   stageResult, dataVars, result, envVars, libVars, bgVars, stageRequests,
                   chanVars, repVars>>

\* the post, raise_for_status or json() raised
RespondError ==
    /\ pc = "request"
    /\ attempt < call_max_retries
    /\ ~overloaded
    /\ requests' = Min(requests + 1, MaxRequests)
    /\ \E kind \in ErrorKinds :
          /\ exc' = kind
          /\ IF caught_for_retry(kind)
             THEN /\ attempt' = attempt_after_exception(attempt)
                  /\ IF call_exhausted(attempt')
                     THEN /\ pc' = "raised"
                          /\ UNCHANGED <<sleeps, sleepFor>>
                     ELSE /\ sleeps' = Append(sleeps, backoff(attempt'))
                          /\ sleepFor' = backoff(attempt')
                          /\ pc' = "sleep"
             ELSE /\ pc' = "raised"
                  /\ UNCHANGED <<attempt, sleeps, sleepFor>>
    /\ stageRequests' = count_request(stageRequests, callKind)
    /\ UNCHANGED <<stage, sattempt, events, n503, callResult, updates,
                   stageResult, dataVars, result, envVars, libVars, bgVars,
                   chanVars, repVars>>

\* a 2xx response: return self._extract_generated_text(result)
RespondOK ==
    /\ pc = "request"
    /\ attempt < call_max_retries
    /\ ~overloaded
    /\ \E t \in Texts : callResult' = t
    /\ requests' = Min(requests + 1, MaxRequests)
    /\ pc' = "returned"
    /\ stageRequests' = count_request(stageRequests, callKind)
    /\ UNCHANGED <<stage, sattempt, events, attempt, n503, sleeps, sleepFor,
                   exc, updates, stageResult, dataVars, result, envVars, libVars, bgVars,
                   chanVars, repVars>>

\* asyncio.sleep is over: next iteration of the while loop
Wake ==
    /\ pc = "sleep"
    /\ sleepFor' = 0
    /\ exc' = NONE
    /\ pc' = "request"
    /\ UNCHANGED <<stage, sattempt, events, attempt, n503, requests, sleeps,
                   callResult, updates, stageResult, dataVars, result,
                   envVars, libVars, bgVars, stageRequests,
                   chanVars, repVars>>

----------------------------------------------------------------------------
(* the stage bodies after their model call *)

\* what the stage body returns from the generated text
\* (the records parsed from the text of the first three stages are the
\* subject of the extraction operators; here only their presence matters)
body_result(s, t) ==
    IF s = "report_generation"
    THEN clean_report_content(extract_report_content(t))
    ELSE PARSED

\* the updates of _generate_report_internal up to enhance_report_with_links
before_enhance_updates(s) == SubSeq(post_call_updates(s), 1, 3)

\* the update of _generate_report_internal after clean_report_content
after_enhance_updates(s) == SubSeq(post_call_updates(s), 4, 4)

\* _call_deepseek returned to a stage body: the rest of the try block; the
\* report body goes on into enhance_report_with_links, which returns its
\* input when the pool is empty and awaits _call_deepseek otherwise
BodyReturn ==
    /\ pc = "returned"
    /\ callKind = "stage"
    /\ IF Stages[stage] = "report_generation" /\ ~pool_empty(pool)
       THEN /\ Sent(before_enhance_updates(Stages[stage]))
            /\ draft' = extract_report_content(callResult)
            /\ reportSteps' = SubSeq(REPORT_STEPS, 1, 2)
            /\ StartCall("enhance")
            /\ UNCHANGED stageResult
       ELSE /\ Sent(post_call_updates(Stages[stage]))
            /\ stageResult' = body_result(Stages[stage], callResult)
            /\ draft' = IF Stages[stage] = "report_generation"
                        THEN extract_report_content(callResult) ELSE draft
            /\ reportSteps' = IF Stages[stage] = "report_generation"
                              THEN REPORT_STEPS ELSE reportSteps
            /\ pc' = "stage_ok"
            /\ UNCHANGED <<callVars, callKind>>
    /\ stageRequests' = 0
    /\ UNCHANGED <<stage, sattempt, events, dataVars, result, envVars, libVars, bgVars, files>>

\* _call_deepseek raised to a stage body: its except branch
BodyExcept ==
    /\ pc = "raised"
    /\ callKind = "stage"
    /\ Sent(except_updates(Stages[stage]))
    /\ IF body_swallows(Stages[stage])
       THEN /\ stageResult' = DEGRADED
            /\ pc' = "stage_ok"
       ELSE /\ pc' = "stage_exc"
            /\ UNCHANGED stageResult
    /\ exc' = NONE
    /\ UNCHANGED <<stage, sattempt, events, attempt, n503, requests, sleeps,
                   sleepFor, callResult, dataVars, result,
                   envVars, libVars, bgVars, stageRequests, repVars>>

\* the enhancement call returned or raised: enhance_report_with_links
\* returns the enhanced text or falls back to its input, then the report
\* body cleans the report and sends the completed update
EnhanceDone ==
    /\ pc \in {"returned", "raised"}
    /\ callKind = "enhance"
    /\ stageResult' = clean_report_content(
                         IF pc = "returned"
                         THEN enhance_result(callResult, draft)
                         ELSE draft)
    /\ reportSteps' = REPORT_STEPS
    /\ Sent(after_enhance_updates(Stages[stage]))
    /\ pc' = "stage_ok"
    /\ exc' = NONE
    /\ UNCHANGED <<stage, sattempt, events, attempt, n503, requests, sleeps,
                   sleepFor, callResult, dataVars, result,
                   envVars, libVars, bgVars, stageRequests, files, callKind, draft>>

----------------------------------------------------------------------------
(* _execute_with_retry: after `result = await func(...)` *)

\* the stage function returned: the wrapper returns its result
WrapperReturn ==
    /\ pc = "stage_ok"
    /\ events' = Append(events, Ev("return", sattempt))
    /\ pc' = "stage_done"
    /\ UNCHANGED <<stage, sattempt, callVars, updates, stageResult, dataVars,
                   result, envVars, libVars, bgVars, stageRequests,
                   chanVars, repVars>>

\* the stage function raised: next iteration of the for loop
WrapperExcept ==
    /\ pc = "stage_exc"
    /\ sattempt' = sattempt + 1
    /\ pc' = "attempt"
    /\ UNCHANGED <<stage, events, callVars, updates, stageResult, dataVars,
                   result, envVars, libVars, bgVars, stageRequests,
                   chanVars, repVars>>

\* the for loop is exhausted: report Error and return the structured failure
WrapperExhausted ==
    /\ pc = "attempt"
    /\ sattempt >= stage_max_retries
    /\ Sent(<<exhausted_update(Stages[stage])>>)
    /\ events' = Append(events, Ev("failure", sattempt))
    /\ stageResult' = FAILURE
    /\ pc' = "stage_done"
    /\ UNCHANGED <<stage, sattempt, callVars, dataVars, result, envVars, libVars, bgVars, stageRequests,
                   repVars>>

----------------------------------------------------------------------------
(* process_research: the stage sequence *)

\* a stage wrapper returned a result: keep it and start the next stage
StageSucceeded ==
    /\ pc = "stage_done"
    /\ stageResult # FAILURE
    /\ marketData' = IF stage = 1 THEN stageResult ELSE marketData
    /\ insights' = IF stage = 2 THEN stageResult ELSE insights
    /\ cases' = IF stage = 3 THEN stageResult ELSE cases
    /\ report' = IF stage = 4 THEN stageResult ELSE report
    /\ IF stage < NumStages
       THEN /\ stage' = stage + 1
            /\ sattempt' = 0
            /\ events' = <<>>
            /\ pc' = "attempt"
            /\ UNCHANGED result
       ELSE /\ result' = "success"
            /\ pc' = "done"
            /\ UNCHANGED <<stage, sattempt, events>>
    /\ stageResult' = NONE
    /\ stageRequests' = IF stage < NumStages THEN 0 ELSE stageRequests
    /\ UNCHANGED <<callVars, updates, envVars, libVars, bgVars,
                   chanVars, repVars>>

\* a pipeline that ignores the success flag and goes on to the next stage
StageFailed_continues ==
    /\ pc = "stage_done"
    /\ stageResult = FAILURE
    /\ IF stage < NumStages
       THEN /\ stage' = stage + 1
            /\ sattempt' = 0
            /\ events' = <<>>
            /\ pc' = "attempt"
            /\ stageResult' = NONE
            /\ UNCHANGED result
       ELSE /\ result' = "failure"
            /\ pc' = "done"
            /\ UNCHANGED <<stage, sattempt, events, stageResult>>
    /\ UNCHANGED <<callVars, updates, dataVars, envVars, libVars, bgVars, stageRequests,
                   chanVars, repVars>>

\* a stage wrapper returned success: False: the pipeline halts
StageFailed ==
    /\ pc = "stage_done"
    /\ stageResult = FAILURE
    /\ result' = "failure"
    /\ pc' = "done"
    /\ UNCHANGED <<stage, sattempt, events, callVars, updates, stageResult,
                   dataVars, envVars, libVars, bgVars, stageRequests,
                   chanVars, repVars>>

\* the observer's socket closes: websocket_endpoint calls manager.disconnect
Disconnect ==
    /\ connected
    /\ pc # "done"
    /\ connected' = FALSE
    /\ UNCHANGED <<pc, stage, sattempt, events, callVars, updates, stageResult,
                   dataVars, result, envVars, libVars, bgVars, stageRequests, lost, repVars>>

----------------------------------------------------------------------------
(* process_research_background: after `result = await process_research` *)

\* a task that saves whatever the pipeline returned
creates_report_always(r) == TRUE
\* if result["success"]: report_service.create_report
creates_report(r) == r = "success"

\* the report is saved; an exception of create_report leaves the try block
\* for the handler of process_research_background
CreateReport ==
    /\ pc = "done"
    /\ bg = "awaiting"
    /\ creates_report(result)
    /\ created' = created + 1
    /\ \E saved \in BOOLEAN : bg' = IF saved THEN "saved" ELSE "except"
    /\ UNCHANGED <<pc, stage, sattempt, events, callVars, updates, stageResult,
                   dataVars, result, envVars, chanVars, repVars, completion,
                   stageRequests, libVars>>

\* await manager.send_message(client_id, {"type": "completion", ...})
SendCompletion ==
    /\ pc = "done"
    /\ \/ bg = "saved"
       \/ bg = "awaiting" /\ ~creates_report(result)
    /\ completion' =
          Append(completion,
                 IF bg = "saved"
                 THEN [success |-> TRUE, report_id |-> "report.id",
                       error |-> NONE, after |-> Len(updates)]
                 ELSE [success |-> FALSE, report_id |-> NONE,
                       error |-> "result.error", after |-> Len(updates)])
    /\ bg' = "finished"
    /\ UNCHANGED <<pc, stage, sattempt, events, callVars, updates, stageResult,
                   dataVars, result, envVars, chanVars, repVars, created,
                   stageRequests, libVars>>

Next ==
    \/ BeginAttempt
    \/ StageWake
    \/ InvokeStage
    \/ DocumentWake
    \/ Respond503
    \/ RespondError
    \/ RespondOK
    \/ Wake
    \/ BodyReturn
    \/ BodyExcept
    \/ EnhanceDone
    \/ WrapperReturn
    \/ WrapperExcept
    \/ WrapperExhausted
    \/ StageSucceeded
    \/ StageFailed
    \/ Disconnect
    \/ CreateReport
    \/ SendCompletion

Spec == Init /\ [][Next]_vars

\* the event loop keeps running the coroutine: every enabled step is taken
FairSpec == Spec /\ WF_vars(Next)

TypeOK ==
    /\ pc \in {"attempt", "stage_sleep", "invoke", "doc_sleep", "request",
               "sleep", "returned", "raised", "stage_ok", "stage_exc", "stage_done",
               "done"}
    /\ bg \in {"awaiting", "saved", "except", "finished"}
    /\ created \in 0..1
    /\ stageRequests \in 0..MaxStageRequests
    /\ Len(completion) <= 1
    /\ stage \in 1..NumStages
    /\ sattempt \in 0..stage_max_retries
    /\ attempt \in 0..call_max_retries
    /\ n503 \in 0..Max503
    /\ requests \in 0..MaxRequests

----------------------------------------------------------------------------
(* Observations used by the properties *)

IsPrefix(a, b) == Len(a) <= Len(b) /\ SubSeq(b, 1, Len(a)) = a

StageUpdates(s) == SelectSeq(updates, LAMBDA u : u.stage = s)

CountEv(e) == Len(SelectSeq(events, LAMBDA x : x.ev = e))

InCall == pc \in {"request", "sleep", "returned", "raised"}

StageIndex(s) == CHOOSE i \in 1..NumStages : Stages[i] = s

Terminal(u) == u.status \in {"completed", "error"}

----------------------------------------------------------------------------
(* C1: a 503 response never consumes a retry attempt: during a call the    *)
(* attempt counter equals the number of requests that failed with a        *)
(* non-503 exception, so after n 503 responses and nothing else it is      *)
(* still 0, and a successful response that follows them makes the call     *)
(* return the generated text.                                              *)
C1_Overload503KeepsAttempt ==
    /\ (InCall /\ overloaded) => attempt = 0
    /\ (InCall /\ ~overloaded) =>
        /\ attempt = requests - n503 - (IF pc = "returned" THEN 1 ELSE 0)
        /\ (pc = "returned" /\ requests = n503 + 1) =>
               (attempt = 0 /\ callResult \in Texts)

C1_Witness ==
    pc = "returned" /\ n503 = Max503 /\ requests = n503 + 1 /\ attempt = 0

(* C2: when every request fails with a non-503 exception the call posts    *)
(* exactly 5 requests, sleeps 2, 4, 8, 16 between them, does not sleep     *)
(* after the 5th failure and raises; a success among the first 5 requests  *)
(* returns its text after attempt + 1 requests and the backoffs so far.    *)
C2_FiveAttemptsBackoff ==
    /\ pc = "raised" =>
          /\ attempt = 5
          /\ sleeps = <<2, 4, 8, 16>>
          /\ sleepFor = 0
          /\ n503 = 0 => requests = 5
    /\ pc \in {"returned", "stage_ok"} /\ callResult # NONE =>
          /\ callResult \in Texts
          /\ attempt <= 4
          /\ sleeps = SubSeq(<<2, 4, 8, 16>>, 1, attempt)
          /\ n503 = 0 => requests = attempt + 1

C2_Witness ==
    pc = "raised" /\ n503 = 0 /\ requests = 5

(* C3 as stated: every stage invocation through _execute_with_retry        *)
(* eventually returns, whatever the endpoint answers.                      *)
C3_StageAlwaysTerminates ==
    (pc = "attempt" /\ sattempt = 0) ~> (pc = "stage_done")

(* C3 amended: a stage invocation eventually returns a result or the       *)
(* structured failure provided the endpoint does not answer 503 to every   *)
(* request; nothing in _execute_with_retry bounds the 503 loop.            *)
C3_TerminatesUnlessOverloaded ==
    (pc = "attempt" /\ sattempt = 0 /\ ~overloaded) ~> (pc = "stage_done")

C3_Witness ==
    pc = "stage_done" /\ n503 = Max503 /\ stageResult = FAILURE

(* C4: _execute_with_retry invokes the stage function at most 3 times and  *)
(* stops at the first invocation that returns; attempt 0 is invoked with   *)
(* no update and no wait, attempt k = 1, 2 is invoked after exactly one    *)
(* update (active, 0) followed by a wait of 2^k seconds.                   *)
C4_Canonical ==
    <<Ev("invoke", 0),
      Ev("update", 1), Ev("wait", 2), Ev("invoke", 1),
      Ev("update", 2), Ev("wait", 4), Ev("invoke", 2)>>

C4_RetrySchedule ==
    LET n == Len(events)
        ended == n > 0 /\ events[n].ev \in {"return", "failure"}
        body == IF ended THEN SubSeq(events, 1, n - 1) ELSE events
    IN  /\ IsPrefix(body, C4_Canonical)
        /\ CountEv("invoke") <= 3
        /\ (n > 0 /\ events[n].ev = "return") => events[n - 1].ev = "invoke"
        /\ Len(SelectSeq(StageUpdates(Stages[stage]),
                         LAMBDA u : u = Upd(Stages[stage], "active", 0)))
             = CountEv("update")

C4_Witness ==
    /\ CountEv("invoke") = 3
    /\ events[Len(events)].ev = "return"

(* C5: when all 3 attempts of a stage function raise, the wrapper returns  *)
(* the structured failure; it returns it in no other case and the          *)
(* exception does not reach process_research.                              *)
C5_StructuredFailure ==
    pc = "stage_done" =>
        /\ (CountEv("invoke") = 3 /\ CountEv("return") = 0)
              <=> stageResult = FAILURE
        /\ stageResult # NONE

C5_Witness ==
    pc = "stage_done" /\ stageResult = FAILURE /\ CountEv("invoke") = 3

(* C6: a failed stage halts the pipeline: once a stage returned the        *)
(* structured failure process_research returns failure, no update of a     *)
(* later stage exists, and a stage that sent an update had the results of  *)
(* the stages it depends on.                                               *)
C6_FailedStageHalts ==
    /\ \A i \in 1..Len(updates) :
          /\ StageIndex(updates[i].stage) <= stage
          /\ updates[i].stage = "case_analysis" => marketData # NONE
          /\ updates[i].stage = "report_generation" => cases # NONE
    /\ result = "failure" =>
          /\ pc = "done"
          /\ stageResult = FAILURE
          /\ report = NONE
          /\ stage <= 3 => cases = NONE
          /\ stage <= 1 => marketData = NONE

C6_Witness ==
    result = "failure" /\ stage = 1 /\ updates # <<>>

\* a stage is finished once its wrapper returned
Finished(i) == i < stage \/ (i = stage /\ pc \in {"stage_done", "done"})

NonDecreasing(seq) ==
    \A i \in 1..(Len(seq) - 1) : seq[i].progress <= seq[i + 1].progress

LastIsTerminal(seq) ==
    /\ seq # <<>>
    /\ LET u == seq[Len(seq)]
       IN  \/ u.status = "completed" /\ u.progress = 100
           \/ u.status = "error" /\ u.progress = 0

(* C7 as stated: for every stage the progress values of all its updates,   *)
(* across its retry attempts, are non-decreasing, and the last update of   *)
(* a finished stage is completed/100 or error/0.                           *)
C7_ProgressMonotone ==
    \A i \in 1..NumStages :
        /\ NonDecreasing(StageUpdates(Stages[i]))
        /\ Finished(i) => LastIsTerminal(StageUpdates(Stages[i]))

\* progress falls only by a reset to 0, at the update that starts a retry
\* attempt or at an error update
FallsOnlyByReset(seq) ==
    \A i \in 1..(Len(seq) - 1) :
        \/ seq[i].progress <= seq[i + 1].progress
        \/ /\ seq[i + 1].progress = 0
           /\ seq[i + 1].status \in {"active", "error"}

(* C7 amended: within one attempt of a stage the progress values are       *)
(* non-decreasing; the sequence of a stage falls only by a reset to 0, at  *)
(* the (active, 0) update that starts a retry attempt or at an error       *)
(* update; the last update of a finished stage is completed/100 or         *)
(* error/0.                                                                *)
C7_ProgressMonotonePerAttempt ==
    \A i \in 1..NumStages :
        /\ FallsOnlyByReset(StageUpdates(Stages[i]))
        /\ Finished(i) => LastIsTerminal(StageUpdates(Stages[i]))

C7_Witness ==
    /\ stage = 2
    /\ nDocs = MaxDocs
    /\ pc = "stage_done"
    /\ ~NonDecreasing(StageUpdates("data_collection"))

(* C8: once an update with status completed or error was sent for a stage  *)
(* no further update is sent for that stage in the same run.               *)
C8_TerminalIsLast ==
    \A i, j \in 1..Len(updates) :
        (i < j /\ updates[i].stage = updates[j].stage) => ~Terminal(updates[i])

\* retry attempts of its stage that had started when update i was sent
RetriesBefore(i) ==
    Len(SelectSeq(SubSeq(updates, 1, i - 1),
                  LAMBDA u : u = Upd(updates[i].stage, "active", 0)))

(* C9: no error update is sent for a stage while _execute_with_retry has   *)
(* an attempt left for it: an error update comes only after both retry     *)
(* attempts of the stage have started.                                     *)
C9_ErrorOnlyWhenExhausted ==
    \A i \in 1..Len(updates) :
        updates[i].status = "error" => RetriesBefore(i) = 2

(* C10: when process_research returns failure, an error update for the     *)
(* stage that failed has been sent.                                        *)
C10_ErrorUpdateBeforeFailure ==
    result = "failure" =>
        \E i \in 1..Len(updates) :
            updates[i].stage = Stages[stage] /\ updates[i].status = "error"

C10_Witness ==
    result = "failure" /\ stage = 3

----------------------------------------------------------------------------
AllFiles == [i \in 1..nDocs |-> i]

(* C11: a failed progress delivery never aborts the pipeline: a stage      *)
(* attempt is counted as failed only when its model call raised, the       *)
(* pipeline fails only on a structured stage failure, and losing an update *)
(* changes neither the stage results nor the final result.                 *)
C11_DeliveryNeverAborts ==
    [][/\ (pc' = "stage_exc" /\ pc # "stage_exc") =>
             (pc = "raised" /\ call_exhausted(attempt))
       /\ (result' = "failure" /\ result # "failure") => stageResult = FAILURE
       /\ (lost' /\ ~lost) =>
             (pc' \in {"stage_sleep", "doc_sleep", "request", "stage_ok",
                       "stage_exc", "stage_done"}
              /\ result' = result /\ dataVars' = dataVars)
       /\ (pc \in {"invoke", "doc_sleep"} /\ pc' # pc) =>
             pc' \in {"doc_sleep", "request"}]_vars

C11_Witness ==
    lost /\ result = "success"

(* C12: when the model call of the local-documents stage fails the stage   *)
(* degrades: it returns no insights and the basenames of all documents in  *)
(* order as a normal result, the wrapper does not retry it, and the        *)
(* pipeline goes on to case_analysis.                                      *)
C12_LocalDocumentsDegrade ==
    /\ stage = 2 => (sattempt = 0 /\ pc # "stage_exc")
    /\ (stage = 2 /\ pc \in {"stage_ok", "stage_done"} /\ call_exhausted(attempt)) =>
          /\ stageResult = DEGRADED
          /\ files = AllFiles
          /\ CountEv("invoke") = 1
    /\ insights = DEGRADED =>
          /\ stage >= 3
          /\ files = AllFiles
          /\ result # "failure" \/ stage > 2

C12_Witness ==
    /\ insights = DEGRADED
    /\ nDocs = MaxDocs
    /\ stage = 3
    /\ pc = "request"

(* C13: on every successful report_generation attempt verify_report_links  *)
(* is applied to the report after enhance_report_with_links and before     *)
(* the completed update is sent.                                           *)
C13_VerifyBeforeCompleted ==
    (\E i \in 1..Len(updates) :
        updates[i] = Upd("report_generation", "completed", 100)) =>
    (\E j, k \in 1..Len(reportSteps) :
        /\ j < k
        /\ reportSteps[j] = "enhance_report_with_links"
        /\ reportSteps[k] = "verify_report_links")

C15_EnhanceFallsBack ==
    /\ (stage = 4 /\ pool = 0) => callKind = "stage"
    /\ (stage = 4 /\ pool = 0 /\ pc = "stage_ok") =>
          stageResult = clean_report_content(draft)
    /\ (stage = 4 /\ callKind = "enhance") =>
          /\ pc \notin {"stage_exc", "attempt", "stage_sleep", "invoke"}
          /\ sattempt = CountEv("invoke") - 1
          /\ pc = "stage_ok" =>
                stageResult = clean_report_content(
                                 IF callResult \in Texts \ {""}
                                 THEN callResult ELSE draft)

C15_Witness ==
    /\ stage = 4
    /\ pc = "stage_ok"
    /\ callKind = "enhance"
    /\ call_exhausted(attempt)
    /\ stageResult = draft

----------------------------------------------------------------------------
(* verify_report_links.  A report is a sequence of tokens: a word, a       *)
(* space, a newline, or a markdown span [text](url), which is what the     *)
(* pattern of re.findall matches.  A url is the sequence of its path       *)
(* segments, the first being scheme and host.                              *)

MaxReportLen == 4
MaxReportLinks == 2

\* config.BASE_URL (the default of the environment variable)
BASE_URL == "https://maclay.pro"

Word == [k |-> "w", text |-> "", url |-> <<>>]
NL == [k |-> "nl", text |-> "", url |-> <<>>]
SP == [k |-> "sp", text |-> "", url |-> <<>>]
Link(t, u) == [k |-> "link", text |-> t, url |-> u]

\* links a report can hold: two with the same text, one self-hosted
\* document, one page of the own site outside /data/
ReportLinks ==
    { Link("a", <<"https://x.org", "p">>),
      Link("a", <<"https://x.org", "q">>),
      Link("b", <<BASE_URL, "data", "f.pdf">>),
      Link("b", <<BASE_URL, "p">>) }

Tokens == {Word, NL, SP} \cup ReportLinks

SeqsUpTo(S, n) == UNION { [1..m -> S] : m \in 0..n }

\* re.findall(link_pattern, report_content)
findall(r) == SelectSeq(r, LAMBDA t : t.k = "link")

Reports ==
    {r \in SeqsUpTo(Tokens, MaxReportLen) : Len(findall(r)) <= MaxReportLinks}

\* status codes a HEAD request can answer with
Statuses == {200, 400}

Outcome(kind, status) == [kind |-> kind, status |-> status]

\* a test for another directory of the own host
self_hosted_static(u) == Len(u) >= 3 /\ u[1] = BASE_URL /\ u[2] = "static"

\* url.startswith(f'{self.config.BASE_URL}/data/')
self_hosted(u) == Len(u) >= 3 /\ u[1] = BASE_URL /\ u[2] = "data"

\* a status test that lets 400 pass
status_working_inclusive(status) == status <= 400

\* response.status_code < 400
status_working(status) == status < 400

\* an exception of the HEAD request that escapes the loop
head_exception_escapes == FALSE

\* the try/except around the check of one link: except Exception
head_exception_caught == TRUE

IsWs(t) == t.k \in {"nl", "sp"}

MaxOf(S) == CHOOSE x \in S : \A y \in S : y <= x
MinOf(S) == CHOOSE x \in S : \A y \in S : x <= y

\* index of the last token of the whitespace run that starts at i
RECURSIVE WsRunEnd(_, _)
WsRunEnd(s, i) ==
    IF i > Len(s) \/ ~IsWs(s[i]) THEN i - 1 ELSE WsRunEnd(s, i + 1)

\* indexes of the newlines of the whitespace run that starts at i
RunNewlines(s, i) == {j \in i..WsRunEnd(s, i) : s[j].k = "nl"}

\* report_content.replace(f"[{text}]({url})", "") for each broken link
RECURSIVE remove_broken(_, _)
remove_broken(r, bs) ==
    IF bs = <<>> THEN r
    ELSE remove_broken(SelectSeq(r, LAMBDA t : t # Head(bs)), Tail(bs))

\* re.sub(r'\n\s*\n\s*\n', '\n\n', ...): a match starts at a newline and
\* runs to the last newline of the whitespace run, if it holds three
RECURSIVE CollapseFrom(_, _)
CollapseFrom(s, i) ==
    IF i > Len(s) THEN <<>>
    ELSE IF s[i].k = "nl" /\ Cardinality(RunNewlines(s, i)) >= 3
         THEN <<NL, NL>> \o CollapseFrom(s, MaxOf(RunNewlines(s, i)) + 1)
         ELSE <<s[i]>> \o CollapseFrom(s, i + 1)

collapse_blank_lines(s) == CollapseFrom(s, 1)

\* re.sub(r'^\s*\n', '', ..., flags=re.MULTILINE): a match starts at the
\* start of a line and runs to the last newline of the whitespace run
RECURSIVE DropFrom(_, _)
DropFrom(s, i) ==
    IF i > Len(s) THEN <<>>
    ELSE IF (i = 1 \/ s[i - 1].k = "nl") /\ RunNewlines(s, i) # {}
         THEN DropFrom(s, MaxOf(RunNewlines(s, i)) + 1)
         ELSE <<s[i]>> \o DropFrom(s, i + 1)

drop_empty_lines(s) == DropFrom(s, 1)

\* str.strip()
strip(s) ==
    LET solid == {i \in 1..Len(s) : ~IsWs(s[i])}
    IN  IF solid = {} THEN <<>> ELSE SubSeq(s, MinOf(solid), MaxOf(solid))

\* a clean-up that trims one leading whitespace character per pass
cleanup_one_leading(s) == IF s # <<>> /\ IsWs(s[1]) THEN Tail(s) ELSE s
\* the clean-up after the removal of the broken links
cleanup_whitespace(s) == strip(drop_empty_lines(collapse_blank_lines(s)))

\* for text, url in verified_links: re.sub of every span with that text
RECURSIVE rewrite_verified(_, _)
rewrite_verified(r, vs) ==
    IF vs = <<>> THEN r
    ELSE rewrite_verified(
            [i \in 1..Len(r) |->
                IF r[i].k = "link" /\ r[i].text = Head(vs).text
                THEN Link(r[i].text, Head(vs).url) ELSE r[i]],
            Tail(vs))

\* no pipeline run is in progress
PipelineIdle ==
    /\ pc = "idle" /\ stage = 1 /\ sattempt = 0 /\ events = <<>>
    /\ attempt = 0 /\ n503 = 0 /\ requests = 0 /\ sleeps = <<>>
    /\ sleepFor = 0 /\ callResult = NONE /\ exc = NONE /\ updates = <<>>
    /\ stageResult = NONE /\ marketData = NONE /\ insights = NONE
    /\ cases = NONE /\ report = NONE /\ result = NONE
    /\ overloaded = FALSE /\ nDocs = 1 /\ pool = 0
    /\ connected = TRUE /\ lost = FALSE
    /\ files = <<>> /\ callKind = "stage" /\ draft = NONE
    /\ reportSteps = <<>>
    /\ bg = "awaiting" /\ created = 0 /\ completion = <<>>
    /\ stageRequests = 0

VerifyInit ==
    /\ vpc = "start"
    /\ report_input \in Reports
    /\ report_content = report_input
    /\ links = <<>>
    /\ vi = 1
    /\ verified_links = <<>>
    /\ broken_links = <<>>
    /\ outcomes = <<>>
    /\ heads = <<>>
    /\ ExtractIdle
    /\ FrameIdle
    /\ RegistryIdle
    /\ PipelineIdle

\* links = re.findall(...); if not links: return report_content
FindLinks ==
    /\ vpc = "start"
    /\ links' = findall(report_content)
    /\ vpc' = IF links' = <<>> THEN "returned" ELSE "check"
    /\ UNCHANGED <<report_input, report_content, vi, verified_links,
                   broken_links, outcomes, heads, extVars, frameVars, regVars,
                   pipeVars>>

\* a self-hosted document: verified_links.append, continue
SkipSelfHosted ==
    /\ vpc = "check"
    /\ vi <= Len(links)
    /\ self_hosted(links[vi].url)
    /\ verified_links' = Append(verified_links, links[vi])
    /\ outcomes' = Append(outcomes, Outcome("self", 0))
    /\ vi' = vi + 1
    /\ UNCHANGED <<vpc, report_input, report_content, links, broken_links,
                   heads, extVars, frameVars, regVars,
                   pipeVars>>

\* a request may be issued while the one before is unanswered
may_issue_while_waiting(p) == p \in {"check", "head"}
\* the loop awaits each response: a request is issued between two checks
may_issue(p) == p = "check"

\* response = await client.head(url, follow_redirects=True)
IssueHead ==
    /\ may_issue(vpc)
    /\ vi <= Len(links)
    /\ ~self_hosted(links[vi].url)
    /\ heads' = Append(heads, vi)
    /\ vpc' = "head"
    /\ UNCHANGED <<report_input, report_content, links, vi, verified_links,
                   broken_links, outcomes, extVars, frameVars, regVars,
                   pipeVars>>

\* the HEAD request is answered: status < 400 verifies the link
HeadResponds ==
    /\ vpc = "head"
    /\ \E status \in Statuses :
          /\ outcomes' = Append(outcomes, Outcome("status", status))
          /\ IF status_working(status)
             THEN /\ verified_links' = Append(verified_links, links[vi])
                  /\ UNCHANGED broken_links
             ELSE /\ broken_links' = Append(broken_links, links[vi])
                  /\ UNCHANGED verified_links
    /\ vi' = vi + 1
    /\ vpc' = "check"
    /\ UNCHANGED <<report_input, report_content, links, heads, extVars, frameVars, regVars,
                   pipeVars>>

\* the HEAD request raises: except Exception: broken_links.append
\* (an exception that left the loop would reach the outer except, which
\* returns report_content)
HeadRaises ==
    /\ vpc = "head"
    /\ outcomes' = Append(outcomes, Outcome("exception", 0))
    /\ IF head_exception_caught
       THEN /\ broken_links' = Append(broken_links, links[vi])
            /\ vi' = vi + 1
            /\ vpc' = "check"
       ELSE /\ vpc' = "returned"
            /\ UNCHANGED <<broken_links, vi>>
    /\ UNCHANGED <<report_input, report_content, links, verified_links,
                   heads, extVars, frameVars, regVars,
                   pipeVars>>

\* after the loop: remove the broken spans, clean the whitespace up if
\* something was broken, rewrite the verified spans, return
FinishVerify ==
    /\ vpc = "check"
    /\ vi > Len(links)
    /\ report_content' =
          rewrite_verified(
              IF broken_links # <<>>
              THEN cleanup_whitespace(remove_broken(report_content, broken_links))
              ELSE report_content,
              verified_links)
    /\ vpc' = "returned"
    /\ UNCHANGED <<report_input, links, vi, verified_links, broken_links,
                   outcomes, heads, extVars, frameVars, regVars,
                   pipeVars>>

VerifyNext ==
    \/ FindLinks
    \/ SkipSelfHosted
    \/ IssueHead
    \/ HeadResponds
    \/ HeadRaises
    \/ FinishVerify

VerifySpec == VerifyInit /\ [][VerifyNext]_vars

Range(s) == {s[i] : i \in 1..Len(s)}

\* the check of link i ended with the link taken for working
Working(i) ==
    \/ outcomes[i].kind = "self"
    \/ outcomes[i].kind = "status" /\ outcomes[i].status < 400

VerifyTypeOK ==
    /\ vpc \in {"start", "check", "head", "returned"}
    /\ report_content \in SeqsUpTo(Tokens, MaxReportLen)
    /\ Len(outcomes) <= Len(links)

----------------------------------------------------------------------------
(* extract_companies_from_text.  The text is the sequence of its lines     *)
(* (text.split), a line the sequence of its words, already trimmed; the    *)
(* empty sequence is a blank line.  A word ending in a colon is a label    *)
(* candidate; "http" stands for a url.  Only the Latin keywords of the     *)
(* keyword lists are modelled.                                             *)

MaxLines == 3

name_keywords == {"company:", "name:", "product:"}
website_keywords == {"website:", "url:"}
country_keywords == {"country:"}
characteristics_keywords == {"characteristics:"}

AllKeywords ==
    name_keywords \cup website_keywords \cup country_keywords
        \cup characteristics_keywords

\* lines a text can hold
Lines ==
    { <<>>,
      <<"company:", "w">>,
      <<"Name:", "v">>,
      <<"website:", "http">>,
      <<"country:", "w">>,
      <<"characteristics:", "w">>,
      <<"http">>,
      <<"w">>,
      <<"w", "name:", "v">>,
      <<"w", "url:", "http">>,
      <<"username:", "v">>,
      <<"w", "http">> }

\* text.split never returns the empty list
ExtractTexts == UNION { [1..m -> Lines] : m \in 1..MaxLines }

\* str.lower() of a word
Lower(w) == IF w = "Name:" THEN "name:" ELSE w

\* the keywords that occur in the lower-cased word
keywords_in(w) ==
    IF w = "username:" THEN {"name:"} ELSE {Lower(w)} \cap AllKeywords

\* a test that wants the keyword at the start of the line
has_keyword_prefix(line, kws) ==
    line # <<>> /\ Lower(line[1]) \in kws

\* any(keyword in line.lower() for keyword in [...])
has_keyword(line, kws) ==
    \E i \in 1..Len(line) : keywords_in(line[i]) \cap kws # {}

\* ':' in word
has_colon(w) == w \notin {"w", "v"}

\* line.split(':', 1)[1].strip() if ':' in line else line
value_after_colon(line) ==
    LET colons == {i \in 1..Len(line) : has_colon(line[i])}
    IN  IF colons = {} THEN line
        ELSE SubSeq(line, MinOf(colons) + 1, Len(line))

\* the branch of the if/elif chain a non-blank line takes
line_kind(line) ==
    IF has_keyword(line, name_keywords) THEN "name"
    ELSE IF has_keyword(line, website_keywords) THEN "website"
    ELSE IF has_keyword(line, country_keywords) THEN "country"
    ELSE IF has_keyword(line, characteristics_keywords) THEN "characteristics"
    ELSE IF line[1] = "http" THEN "links"
    ELSE "ignored"

\* a test that takes the empty dict for a record
in_progress_always(c) == TRUE
\* `if current_company:` is true for a dict with a key
in_progress(c) == DOMAIN c # {}

\* an append that does not look at the record
flush_always(cs, c) == Append(cs, c)

\* if current_company: companies.append(current_company)
flush(cs, c) == IF in_progress(c) THEN Append(cs, c) ELSE cs

\* current_company[key] = value
put(c, key, value) ==
    [x \in DOMAIN c \cup {key} |-> IF x = key THEN value ELSE c[x]]

ExtractInit ==
    /\ xpc = "line"
    /\ lines \in ExtractTexts
    /\ xi = 1
    /\ current_company = NoCompany
    /\ companies = <<>>
    /\ VerifyIdle
    /\ FrameIdle
    /\ RegistryIdle
    /\ PipelineIdle

\* if not line: flush the record in progress, continue
LineBlank ==
    /\ xpc = "line"
    /\ xi <= Len(lines)
    /\ lines[xi] = <<>>
    /\ companies' = flush(companies, current_company)
    /\ current_company' = NoCompany
    /\ xi' = xi + 1
    /\ UNCHANGED <<xpc, lines, verVars, frameVars, regVars,
                   pipeVars>>

\* a company keyword: flush, current_company = {"name": ...}
LineCompany ==
    /\ xpc = "line"
    /\ xi <= Len(lines)
    /\ lines[xi] # <<>>
    /\ line_kind(lines[xi]) = "name"
    /\ companies' = flush(companies, current_company)
    /\ current_company' = ("name" :> value_after_colon(lines[xi]))
    /\ xi' = xi + 1
    /\ UNCHANGED <<xpc, lines, verVars, frameVars, regVars,
                   pipeVars>>

\* a website, country or characteristics keyword: set the field of the
\* record in progress
LineField ==
    /\ xpc = "line"
    /\ xi <= Len(lines)
    /\ lines[xi] # <<>>
    /\ line_kind(lines[xi]) \in {"website", "country", "characteristics"}
    /\ current_company' =
          IF in_progress(current_company)
          THEN put(current_company, line_kind(lines[xi]),
                   value_after_colon(lines[xi]))
          ELSE current_company
    /\ xi' = xi + 1
    /\ UNCHANGED <<xpc, lines, companies, verVars, frameVars, regVars,
                   pipeVars>>

\* line.startswith('http'): append the line to the links of the record
LineLink ==
    /\ xpc = "line"
    /\ xi <= Len(lines)
    /\ lines[xi] # <<>>
    /\ line_kind(lines[xi]) = "links"
    /\ current_company' =
          IF in_progress(current_company)
          THEN put(current_company, "links",
                   IF "links" \in DOMAIN current_company
                   THEN Append(current_company["links"], lines[xi])
                   ELSE <<lines[xi]>>)
          ELSE current_company
    /\ xi' = xi + 1
    /\ UNCHANGED <<xpc, lines, companies, verVars, frameVars, regVars,
                   pipeVars>>

\* no branch matches
LineIgnored ==
    /\ xpc = "line"
    /\ xi <= Len(lines)
    /\ lines[xi] # <<>>
    /\ line_kind(lines[xi]) = "ignored"
    /\ xi' = xi + 1
    /\ UNCHANGED <<xpc, lines, current_company, companies, verVars, frameVars, regVars,
                   pipeVars>>

\* after the loop: flush the record in progress, return companies
ReturnCompanies ==
    /\ xpc = "line"
    /\ xi > Len(lines)
    /\ companies' = flush(companies, current_company)
    /\ xpc' = "returned"
    /\ UNCHANGED <<lines, xi, current_company, verVars, frameVars, regVars,
                   pipeVars>>

ExtractNext ==
    \/ LineBlank
    \/ LineCompany
    \/ LineField
    \/ LineLink
    \/ LineIgnored
    \/ ReturnCompanies

ExtractSpec == ExtractInit /\ [][ExtractNext]_vars

ExtractTypeOK ==
    /\ xpc \in {"line", "returned"}
    /\ xi \in 1..(Len(lines) + 1)
    /\ Len(companies) <= Len(lines)
    /\ \A k \in 1..Len(companies) : "name" \in DOMAIN companies[k]

\* the links whose check ended as `want` says, in report order
RECURSIVE Pick(_, _)
Pick(i, want) ==
    IF i > Len(outcomes) THEN <<>>
    ELSE (IF Working(i) = want THEN <<links[i]>> ELSE <<>>) \o Pick(i + 1, want)

\* the url names a document under BASE_URL/data/
OwnDocument(u) == IsPrefix(<<BASE_URL, "data">>, u) /\ Len(u) > 2

\* indexes of the links that are not own documents, among the first n
RECURSIVE External(_)
External(n) ==
    IF n = 0 THEN <<>>
    ELSE External(n - 1) \o (IF OwnDocument(links[n].url) THEN <<>> ELSE <<n>>)

----------------------------------------------------------------------------
(* C16: link verification takes a link for working exactly when its HEAD   *)
(* request answered a status below 400 or the url is self-hosted, and for  *)
(* broken otherwise; after the pass the report holds the span [text](url)  *)
(* of a link if and only if the link was taken for working.                *)
C16_SpanIffWorking ==
    vpc = "returned" =>
        /\ verified_links = Pick(1, TRUE)
        /\ broken_links = Pick(1, FALSE)
        /\ \A i \in 1..Len(links) :
              (links[i] \in Range(report_content)) <=> Working(i)

(* C17: a link to a document under BASE_URL/data/ is always taken for      *)
(* working and no HEAD request is ever issued for it.                      *)
C17_SelfHostedNoHead ==
    /\ \A j \in 1..Len(heads) : ~OwnDocument(links[heads[j]].url)
    /\ \A i \in 1..Len(outcomes) :
          OwnDocument(links[i].url) =>
              /\ outcomes[i].kind = "self"
              /\ links[i] \in Range(verified_links)
              /\ links[i] \notin Range(broken_links)

C17_Witness ==
    /\ vpc = "returned"
    /\ heads # <<>>
    /\ broken_links # <<>>
    /\ \E i \in 1..Len(links) : OwnDocument(links[i].url)

(* C18: network errors never abort link verification: whatever the HEAD    *)
(* requests answer, the function returns a report and every link is        *)
(* checked; an exception puts only its own link among the broken ones; the *)
(* HEAD requests are issued one at a time in report order.                 *)
C18_ErrorsNeverAbort ==
    /\ vpc = "returned" =>
          /\ Len(outcomes) = Len(links)
          /\ report_content \in SeqsUpTo(Tokens, Len(report_input))
    /\ verified_links = Pick(1, TRUE)
    /\ broken_links = Pick(1, FALSE)
    /\ \A i \in 1..Len(outcomes) :
          outcomes[i].kind = "exception" => links[i] \in Range(broken_links)
    /\ heads = External(IF vpc = "head" THEN vi ELSE Len(outcomes))
    /\ vpc = "head" => (Len(outcomes) = vi - 1 /\ heads[Len(heads)] = vi)

C18_Witness ==
    /\ vpc = "returned"
    /\ \E i, j \in 1..Len(outcomes) :
          /\ i < j
          /\ outcomes[i].kind = "exception"
          /\ outcomes[j].kind = "status"
          /\ Working(j)
          /\ links[j] \in Range(report_content)
          /\ links[i] \notin Range(report_content)

----------------------------------------------------------------------------
(* Observations on the text given to extract_companies_from_text *)

\* the k-th smallest element of a set of numbers
Nth(S, k) == CHOOSE x \in S : Cardinality({y \in S : y < x}) = k - 1

\* a keyword is the first word of the line
StartsWith(line, kws) == line # <<>> /\ Lower(line[1]) \in kws

\* a keyword occurs somewhere in the line
Contains(line, kws) ==
    \E i \in 1..Len(line) :
        \/ Lower(line[i]) \in kws
        \/ line[i] = "username:" /\ "name:" \in kws

\* the text after the first colon of a line that has a label
AfterColon(line) ==
    LET first == MinOf({i \in 1..Len(line) : line[i] \notin {"w", "v"}})
    IN  SubSeq(line, first + 1, Len(line))

\* line i is the first line of a block
BlockStart(i) == lines[i] # <<>> /\ (i = 1 \/ lines[i - 1] = <<>>)

\* the last line of the block that line i belongs to
RECURSIVE BlockEnd(_)
BlockEnd(i) ==
    IF i = Len(lines) \/ lines[i + 1] = <<>> THEN i ELSE BlockEnd(i + 1)

\* the blocks that start with a company label, by their first line
CompanyBlocks ==
    {i \in 1..Len(lines) : BlockStart(i) /\ StartsWith(lines[i], name_keywords)}

FieldKeywords(f) ==
    CASE f = "website" -> website_keywords
      [] f = "country" -> country_keywords
      [] f = "characteristics" -> characteristics_keywords

\* the fields labelled in the block that starts at line i
FieldsLabelled(i) ==
    {"name"}
    \cup {f \in {"website", "country", "characteristics"} :
            \E j \in (i + 1)..BlockEnd(i) : StartsWith(lines[j], FieldKeywords(f))}
    \cup (IF \E j \in (i + 1)..BlockEnd(i) : lines[j][1] = "http"
          THEN {"links"} ELSE {})

\* the non-blank lines that hold a company label
CompanyLines ==
    {i \in 1..Len(lines) : Contains(lines[i], name_keywords)}

\* the last line read into the record that line i starts
RECURSIVE RecordEnd(_)
RecordEnd(i) ==
    IF i = Len(lines) \/ lines[i + 1] = <<>>
          \/ Contains(lines[i + 1], name_keywords)
    THEN i ELSE RecordEnd(i + 1)

\* the key a line of a record sets, if any
KeySet(line) ==
    IF Contains(line, website_keywords) THEN {"website"}
    ELSE IF Contains(line, country_keywords) THEN {"country"}
    ELSE IF Contains(line, characteristics_keywords) THEN {"characteristics"}
    ELSE IF line[1] = "http" THEN {"links"}
    ELSE {}

(* C19: extract_companies_from_text returns exactly one record per         *)
(* blank-line-terminated block that starts with a company label, and the   *)
(* record holds exactly the fields labelled inside the block.              *)
C19_OneRecordPerBlock ==
    xpc = "returned" =>
        /\ Len(companies) = Cardinality(CompanyBlocks)
        /\ \A k \in 1..Len(companies) :
              DOMAIN companies[k] = FieldsLabelled(Nth(CompanyBlocks, k))

(* C19 as the code has it: one record per line that holds a company label, *)
(* in order; its name is the text after the first colon of that line and   *)
(* its keys are name and the keys set by the lines that follow, up to the  *)
(* next company line or blank line.  A block whose first line is its only  *)
(* company line gives exactly one record.                                  *)
C19_OneRecordPerCompanyLine ==
    xpc = "returned" =>
        /\ Len(companies) = Cardinality(CompanyLines)
        /\ \A k \in 1..Len(companies) :
              LET i == Nth(CompanyLines, k)
              IN  /\ companies[k]["name"] = AfterColon(lines[i])
                  /\ DOMAIN companies[k] =
                        {"name"} \cup
                        UNION {KeySet(lines[j]) : j \in (i + 1)..RecordEnd(i)}

C19_Witness ==
    /\ xpc = "returned"
    /\ Len(lines) = 3
    /\ StartsWith(lines[1], name_keywords)
    /\ StartsWith(lines[2], name_keywords)
    /\ StartsWith(lines[3], website_keywords)
    /\ Len(companies) = 2
    /\ DOMAIN companies[1] = {"name"}
    /\ DOMAIN companies[2] = {"name", "website"}

(* C20: a line is a labelled line only when a label is its prefix: a line  *)
(* that merely holds a label after its start neither starts a record nor   *)
(* sets a field.                                                           *)
C20_LabelMustBePrefix ==
    [][(/\ xpc = "line"
        /\ xi <= Len(lines)
        /\ Contains(lines[xi], AllKeywords)
        /\ ~StartsWith(lines[xi], AllKeywords))
       => UNCHANGED <<current_company, companies>>]_vars

(* C20 as the code has it: a label counts wherever it occurs in the line   *)
(* (company labels first, then website, country, characteristics), the     *)
(* value being the text after the first colon; only http is tested as a    *)
(* prefix; a line with no label that does not start with http is ignored.  *)
C20_LabelAnywhere ==
    [][(xpc = "line" /\ xi <= Len(lines) /\ lines[xi] # <<>>) =>
        LET line == lines[xi]
        IN  /\ Contains(line, name_keywords) =>
                  /\ current_company' = ("name" :> AfterColon(line))
                  /\ Len(companies') =
                        Len(companies) + (IF DOMAIN current_company = {} THEN 0 ELSE 1)
            /\ (~Contains(line, name_keywords) /\ DOMAIN current_company # {}) =>
                  /\ \A key \in KeySet(line) \ {"links"} :
                        /\ key \in DOMAIN current_company'
                        /\ current_company'[key] = AfterColon(line)
                  /\ DOMAIN current_company' = DOMAIN current_company \cup KeySet(line)
                  /\ companies' = companies
            /\ (~Contains(line, name_keywords) /\ DOMAIN current_company = {}) =>
                  UNCHANGED <<current_company, companies>>
            /\ (~Contains(line, AllKeywords) /\ line[1] # "http") =>
                  UNCHANGED <<current_company, companies>>]_vars

C20_Witness ==
    /\ xpc = "returned"
    /\ Len(lines) = 2
    /\ lines[1] = <<"w", "name:", "v">>
    /\ lines[2] = <<"w", "url:", "http">>
    /\ Len(companies) = 1
    /\ companies[1] = [name |-> <<"v">>, website |-> <<"http">>]

----------------------------------------------------------------------------
(* C25: generate has two failure outcomes: it fails after retry exhaustion, *)
(* and it fails at once, without a retry, on a non-retryable HTTP failure   *)
(* (a 4xx status).                                                          *)
C25_ClientErrorNotRetried ==
    [][/\ (pc = "request" /\ exc' = "http_4xx") => pc' = "raised"
       /\ (pc = "request" /\ pc' = "raised") =>
             (exc' = "http_4xx" \/ call_exhausted(attempt'))]_vars

(* C25 as the code has it: every failure other than a 503 response, a 4xx   *)
(* status included, consumes one attempt and is retried after the backoff;  *)
(* the call raises only when the fifth attempt failed, and what it raises   *)
(* is the last exception, whatever its kind.                                *)
C25_EveryFailureRetried ==
    [][(pc = "request" /\ exc' # NONE) =>
          /\ exc' \in ErrorKinds
          /\ attempt' = attempt + 1
          /\ pc' = IF attempt' = 5 THEN "raised" ELSE "sleep"
          /\ pc' = "sleep" => sleepFor' = 2 ^ attempt'
          /\ requests' = requests + 1]_vars

C25_Witness ==
    /\ pc = "sleep"
    /\ exc = "http_4xx"
    /\ attempt = 4
    /\ sleepFor = 16
    /\ stage = 3

----------------------------------------------------------------------------
(* _extract_generated_text / extract_generated_text.  A decoded JSON value *)
(* is a record tagged with its type; a field of an object is absent, null, *)
(* the empty string or a text.                                             *)

\* what the steps of a text function studied alone leave unchanged
outsideFrame == <<pipeVars, verVars, extVars, regVars>>

MaxItems == 2

ABSENT == "<absent>"
NULL == "<null>"

JNull == [t |-> "null"]
JNumber == [t |-> "number"]
JString(str) == [t |-> "string", s |-> str]
JDict(g, x) == [t |-> "dict", generated_text |-> g, text |-> x]
JList(items) == [t |-> "list", items |-> items]

JDicts ==
    {JDict(g, x) : g \in {ABSENT, NULL, "", "gen"}, x \in {ABSENT, NULL, "", "txt"}}

JItems == {JNull, JNumber, JString(""), JString("s")} \cup JDicts

\* the values response.json() can give
Shapes == JItems \cup {JList(items) : items \in SeqsUpTo(JItems, MaxItems)}

\* a value that `or` passes over: None (also of a missing key) and ""
falsy(v) == v \in {ABSENT, NULL, ""}

\* a selection that takes generated_text whenever the key is there
text_of_if_present(d) ==
    IF d.generated_text # ABSENT THEN d.generated_text
    ELSE IF d.text # ABSENT THEN d.text
    ELSE ""

\* d.get("generated_text") or d.get("text") or ""
text_of(d) ==
    IF ~falsy(d.generated_text) THEN d.generated_text
    ELSE IF ~falsy(d.text) THEN d.text
    ELSE ""

\* the return statement the value reaches
shape_branch(value) ==
    IF value.t = "list" /\ value.items # <<>> /\ value.items[1].t = "dict"
    THEN "list_dict"
    ELSE IF value.t = "list" /\ value.items # <<>>
            /\ value.items[1].t = "string"
    THEN "list_str"
    ELSE IF value.t = "dict" THEN "dict"
    ELSE "other"

extract_generated_text(value) ==
    CASE shape_branch(value) = "list_dict" -> text_of(value.items[1])
      [] shape_branch(value) = "list_str" -> value.items[1].s
      [] shape_branch(value) = "dict" -> text_of(value)
      [] shape_branch(value) = "other" -> ""

NormalizeInit ==
    /\ fn = "extract_generated_text"
    /\ fpc = "call"
    /\ arg \in Shapes
    /\ locals = <<>>
    /\ ret = NONE
    /\ VerifyIdle
    /\ ExtractIdle
    /\ RegistryIdle
    /\ PipelineIdle

ReturnFrom(branch) ==
    /\ fn = "extract_generated_text"
    /\ fpc = "call"
    /\ shape_branch(arg) = branch
    /\ ret' = extract_generated_text(arg)
    /\ fpc' = "returned"
    /\ UNCHANGED <<fn, arg, locals, outsideFrame>>

\* result is a non-empty list whose first item is a dict
ReturnListDict == ReturnFrom("list_dict")

\* result is a non-empty list whose first item is a str
ReturnListStr == ReturnFrom("list_str")

\* result is a dict
ReturnDict == ReturnFrom("dict")

\* return ""
ReturnEmpty == ReturnFrom("other")

NormalizeNext ==
    \/ ReturnListDict
    \/ ReturnListStr
    \/ ReturnDict
    \/ ReturnEmpty

NormalizeSpec == NormalizeInit /\ [][NormalizeNext]_vars

\* the field is there and holds a non-empty text
NonEmpty(v) == v \notin {ABSENT, NULL, ""}

\* the object the text is read from, if the value has one
TextObject ==
    IF arg.t = "dict" THEN <<arg>>
    ELSE IF arg.t = "list" /\ Len(arg.items) > 0 /\ arg.items[1].t = "dict"
    THEN <<arg.items[1]>>
    ELSE <<>>

(* C24: the normalization of the response shape is total: from a list      *)
(* whose first item is an object, or from an object, it returns the        *)
(* generated_text field if it is non-empty, else the text field if it is   *)
(* non-empty, else ""; from a list whose first item is a string it returns *)
(* that string; from every other shape it returns "".                      *)
C24_NormalizationTotal ==
    /\ fpc = "call" => ENABLED NormalizeNext
    /\ fpc = "returned" =>
          /\ ret \in {"", "s", "gen", "txt"}
          /\ TextObject # <<>> =>
                ret = IF NonEmpty(TextObject[1].generated_text)
                      THEN TextObject[1].generated_text
                      ELSE IF NonEmpty(TextObject[1].text)
                      THEN TextObject[1].text
                      ELSE ""
          /\ (arg.t = "list" /\ Len(arg.items) > 0 /\ arg.items[1].t = "string") =>
                ret = arg.items[1].s
          /\ (TextObject = <<>>
              /\ ~(arg.t = "list" /\ Len(arg.items) > 0
                   /\ arg.items[1].t = "string")) =>
                ret = ""

C24_Witness ==
    /\ fpc = "returned"
    /\ arg.t = "list"
    /\ Len(arg.items) = 2
    /\ arg.items[1] = JDict("", "txt")
    /\ arg.items[2] = JString("s")
    /\ ret = "txt"

----------------------------------------------------------------------------
(* parse_local_insights.  The text of the model is either a well-formed    *)
(* JSON array of objects or a text that is not JSON, given as its lines,   *)
(* each line a sequence of characters: "-", "*", "b" (the bullet), " " and *)
(* "x" (any other character).  A field of an object holds "0" (the number  *)
(* zero), "" (the empty string), "[]" (the empty list), "v" (any truthy    *)
(* value), null, or is absent.  Of the normalized object only the fields   *)
(* fact, metrics, date and links are modelled.                             *)

MaxInsights == 2
MaxTextLines == 2

InsightObjects ==
    [fact : {ABSENT, "", "v"}, metrics : {NULL, "0", "v"},
     date : {"", "v"}, links : {"[]", "v"}]

InsightLines ==
    { <<>>,
      <<" ">>,
      <<"-">>,
      <<"x">>,
      <<"-", " ", "x">>,
      <<"*", "*", "x", "*", "*">>,
      <<"x", " ", "-">>,
      <<"b", " ", "x", " ", "x">>,
      <<"x", "-", "x">> }

InsightContents ==
    {[kind |-> "array", items |-> items, lines |-> <<>>] :
        items \in SeqsUpTo(InsightObjects, MaxInsights)}
    \cup
    {[kind |-> "text", items |-> <<>>, lines |-> ls] :
        ls \in UNION {[1..m -> InsightLines] : m \in 1..MaxTextLines}}

\* a value that `or` replaces by the default: None, 0, "", []
falsy_value(v) == v \in {ABSENT, NULL, "0", "", "[]"}

\* item.get(key) or default
get_or(item, key, default) ==
    IF falsy_value(item[key]) THEN default ELSE item[key]

\* the dict appended to norm for one item
normalized(item) ==
    [fact |-> get_or(item, "fact", ""),
     metrics |-> get_or(item, "metrics", NULL),
     date |-> get_or(item, "date", NULL),
     links |-> get_or(item, "links", "[]")]

\* the characters of line.strip(" -<bullet>*")
STRIP_CHARS == {" ", "-", "b", "*"}

\* str.strip(chars): the characters are removed at both ends
strip_chars(line, chars) ==
    LET kept == {i \in 1..Len(line) : line[i] \notin chars}
    IN  IF kept = {} THEN <<>> ELSE SubSeq(line, MinOf(kept), MaxOf(kept))

\* the dict appended to insights for one line
fallback_insight(fact) ==
    [source_file |-> "unknown.pdf", download_link |-> NULL, section |-> "",
     fact |-> fact, metrics |-> NULL, date |-> NULL, links |-> "[]"]

\* the loop over content_str.split
RECURSIVE fallback_insights(_)
fallback_insights(ls) ==
    IF ls = <<>> THEN <<>>
    ELSE (IF strip_chars(Head(ls), STRIP_CHARS) = <<>> THEN <<>>
          ELSE <<fallback_insight(strip_chars(Head(ls), STRIP_CHARS))>>)
         \o fallback_insights(Tail(ls))

InsightInit ==
    /\ fn = "parse_local_insights"
    /\ fpc = "call"
    /\ arg \in InsightContents
    /\ locals = <<>>
    /\ ret = NONE
    /\ VerifyIdle
    /\ ExtractIdle
    /\ RegistryIdle
    /\ PipelineIdle

\* the text is a JSON array: return norm
ReturnNorm ==
    /\ fn = "parse_local_insights"
    /\ fpc = "call"
    /\ arg.kind = "array"
    /\ ret' = [i \in 1..Len(arg.items) |-> normalized(arg.items[i])]
    /\ fpc' = "returned"
    /\ locals' = "json"
    /\ UNCHANGED <<fn, arg, outsideFrame>>

\* the parse raised: except Exception: pass, then the line fallback
ReturnFallback ==
    /\ fn = "parse_local_insights"
    /\ fpc = "call"
    /\ arg.kind = "text"
    /\ ret' = fallback_insights(arg.lines)
    /\ fpc' = "returned"
    /\ locals' = "fallback"
    /\ UNCHANGED <<fn, arg, outsideFrame>>

InsightNext ==
    \/ ReturnNorm
    \/ ReturnFallback

InsightSpec == InsightInit /\ [][InsightNext]_vars

\* the fields of the objects a JSON array provides
ProvidedFields(item) ==
    {key \in {"fact", "metrics", "date", "links"} : item[key] # ABSENT}

\* a line with its leading bullets, dashes, asterisks and blanks removed
\* and its trailing blanks removed
LeadingStripped(line) ==
    LET solid == {i \in 1..Len(line) : line[i] \notin STRIP_CHARS}
        nonblank == {i \in 1..Len(line) : line[i] # " "}
    IN  IF solid = {} THEN <<>> ELSE SubSeq(line, MinOf(solid), MaxOf(nonblank))

RECURSIVE LeadingStrippedInsights(_)
LeadingStrippedInsights(ls) ==
    IF ls = <<>> THEN <<>>
    ELSE (IF LeadingStripped(Head(ls)) = <<>> THEN <<>>
          ELSE <<[source_file |-> "unknown.pdf", download_link |-> NULL,
                  section |-> "", fact |-> LeadingStripped(Head(ls)),
                  metrics |-> NULL, date |-> NULL, links |-> "[]"]>>)
         \o LeadingStrippedInsights(Tail(ls))

(* C21: parse_local_insights keeps the value of every provided field of    *)
(* every object of a well-formed JSON array, falsy values included, and    *)
(* returns the line fallback for a text that is not JSON.                  *)
C21_RoundTrip ==
    fpc = "returned" =>
        /\ arg.kind = "array" =>
              /\ Len(ret) = Len(arg.items)
              /\ \A i \in 1..Len(ret) :
                    \A key \in ProvidedFields(arg.items[i]) :
                        ret[i][key] = arg.items[i][key]
        /\ arg.kind = "text" => locals = "fallback"

(* C22: in the line fallback only the leading bullets, dashes and          *)
(* asterisks of a line are stripped, and every line that is not empty      *)
(* after the stripping gives one insight, in order, whose fact is the      *)
(* stripped line, with source_file "unknown.pdf", no download link, an     *)
(* empty section, no metrics, no date and no links.                        *)
C22_LeadingOnly ==
    (fpc = "returned" /\ arg.kind = "text") =>
        ret = LeadingStrippedInsights(arg.lines)

----------------------------------------------------------------------------
(* extract_cases_from_text.  A line is a sequence of tokens: "**" and "*"  *)
(* are the asterisks, "Case" and "Product" stand for the two Cyrillic      *)
(* marker words followed by their blank, a digit is one character of a     *)
(* number, "w" is any other word.  Lines hold no outer blanks, so the      *)
(* stripped line is the line, and the blank line is the empty sequence.    *)
(* The source shows the function up to the title of a new case; the        *)
(* increment of the counter, the accumulation of the other lines and the   *)
(* flush at the end follow section 4.5 of the specification.               *)

MaxCaseLines == 3

DIGITS == <<"0", "1", "2", "3", "4", "5", "6", "7", "8", "9">>

\* the characters of str(n)
RECURSIVE Digits(_)
Digits(n) ==
    IF n < 10 THEN <<DIGITS[n + 1]>>
    ELSE Digits(n \div 10) \o <<DIGITS[(n % 10) + 1]>>

CaseLines ==
    { <<>>,
      <<"**", "Case", "1", ":", "w", "**">>,
      <<"Case", "1">>,
      <<"Case", "2", "w">>,
      <<"**", "Product", "2">>,
      <<"Product", "1">>,
      <<"Case", "1", "0">>,
      <<"Case", "3">>,
      <<"w">>,
      <<"*", "w">>,
      <<"w", "Case", "1">> }

CaseTexts == UNION {[1..m -> CaseLines] : m \in 1..MaxCaseLines}

\* current_case = {}
NoCase == [number |-> 0, title |-> <<>>, body |-> <<>>]

\* the four startswith tests for the expected number
case_marker(line, case_number) ==
    \/ IsPrefix(<<"**", "Case">> \o Digits(case_number), line)
    \/ IsPrefix(<<"Case">> \o Digits(case_number), line)
    \/ IsPrefix(<<"**", "Product">> \o Digits(case_number), line)
    \/ IsPrefix(<<"Product">> \o Digits(case_number), line)

\* line.replace('**', '').replace('*', '').strip()
case_title(line) == SelectSeq(line, LAMBDA t : t \notin {"**", "*"})

\* the counter after a marker
next_case_number(case_number) == case_number + 1

\* a line that is no marker is dropped
accumulate_discard(case, line) == case
\* a line that is no marker joins the body of the active case
accumulate(case, line) == [case EXCEPT !.body = Append(@, line)]

\* if current_case: cases.append(current_case)
flush_case(done, case) == IF case # NoCase THEN Append(done, case) ELSE done

CasesInit ==
    /\ fn = "extract_cases_from_text"
    /\ fpc = "line"
    /\ arg \in CaseTexts
    /\ locals = [i |-> 1, current_case |-> NoCase, case_number |-> 1,
                 cases |-> <<>>]
    /\ ret = NONE
    /\ VerifyIdle
    /\ ExtractIdle
    /\ RegistryIdle
    /\ PipelineIdle

CaseAtLine ==
    /\ fn = "extract_cases_from_text"
    /\ fpc = "line"
    /\ locals.i <= Len(arg)

\* if not line: continue
CaseBlank ==
    /\ CaseAtLine
    /\ arg[locals.i] = <<>>
    /\ locals' = [locals EXCEPT !.i = @ + 1]
    /\ UNCHANGED <<fn, fpc, arg, ret, outsideFrame>>

\* a marker of the expected number: flush, start a case, count
CaseMarker ==
    /\ CaseAtLine
    /\ arg[locals.i] # <<>>
    /\ case_marker(arg[locals.i], locals.case_number)
    /\ locals' = [i |-> locals.i + 1,
                  cases |-> flush_case(locals.cases, locals.current_case),
                  current_case |-> [number |-> locals.case_number,
                                    title |-> case_title(arg[locals.i]),
                                    body |-> <<>>],
                  case_number |-> next_case_number(locals.case_number)]
    /\ UNCHANGED <<fn, fpc, arg, ret, outsideFrame>>

\* any other line while a case is active
CaseBody ==
    /\ CaseAtLine
    /\ arg[locals.i] # <<>>
    /\ ~case_marker(arg[locals.i], locals.case_number)
    /\ locals.current_case # NoCase
    /\ locals' = [locals EXCEPT !.i = @ + 1,
                                !.current_case = accumulate(@, arg[locals.i])]
    /\ UNCHANGED <<fn, fpc, arg, ret, outsideFrame>>

\* any other line before the first case
CasePreamble ==
    /\ CaseAtLine
    /\ arg[locals.i] # <<>>
    /\ ~case_marker(arg[locals.i], locals.case_number)
    /\ locals.current_case = NoCase
    /\ locals' = [locals EXCEPT !.i = @ + 1]
    /\ UNCHANGED <<fn, fpc, arg, ret, outsideFrame>>

\* the end of the loop: the last case is flushed, cases is returned
ReturnCases ==
    /\ fn = "extract_cases_from_text"
    /\ fpc = "line"
    /\ locals.i > Len(arg)
    /\ ret' = flush_case(locals.cases, locals.current_case)
    /\ fpc' = "returned"
    /\ UNCHANGED <<fn, arg, locals, outsideFrame>>

CasesNext ==
    \/ CaseBlank
    \/ CaseMarker
    \/ CaseBody
    \/ CasePreamble
    \/ ReturnCases

CasesSpec == CasesInit /\ [][CasesNext]_vars

\* the line begins with one of the four markers of number n
BeginsWithMarker(line, n) ==
    \E stars \in {<<>>, <<"**">>} : \E word \in {"Case", "Product"} :
        LET marker == stars \o <<word>> \o Digits(n)
        IN  Len(line) >= Len(marker) /\
            \A k \in 1..Len(marker) : line[k] = marker[k]

(* C23: a line starts a new case, flushing the one before, exactly when it *)
(* begins with a marker of the expected number; the expected number grows  *)
(* by one per marker; every other non-blank line joins the active case and *)
(* is not dropped.                                                         *)
C23_MarkersAndBodies ==
    [][ (fn = "extract_cases_from_text" /\ fpc = "line" /\ fpc' = "line") =>
          LET line == arg[locals.i]
              n == locals.case_number
              active == locals.current_case
          IN  /\ locals'.i = locals.i + 1
              /\ (line # <<>> /\ BeginsWithMarker(line, n)) =>
                    /\ locals'.current_case.number = n
                    /\ locals'.current_case.body = <<>>
                    /\ locals'.case_number = n + 1
                    /\ locals'.cases = IF active = NoCase THEN locals.cases
                                       ELSE locals.cases \o <<active>>
              /\ ~(line # <<>> /\ BeginsWithMarker(line, n)) =>
                    /\ locals'.case_number = n
                    /\ locals'.cases = locals.cases
                    /\ locals'.current_case.number = active.number
                    /\ locals'.current_case.title = active.title
                    /\ locals'.current_case.body =
                          IF line # <<>> /\ active # NoCase
                          THEN active.body \o <<line>> ELSE active.body
      ]_vars

C23_Witness ==
    /\ fn = "extract_cases_from_text"
    /\ fpc = "returned"
    /\ Len(ret) = 2
    /\ ret[1].number = 1
    /\ ret[1].body # <<>>
    /\ ret[2].number = 2

----------------------------------------------------------------------------
(* The whitespace clean-up of verify_report_links, applied twice to a text *)
(* of words, newlines and blanks.                                          *)

MaxCleanLen == 6

CleanTexts == SeqsUpTo({Word, NL, SP}, MaxCleanLen)

CleanInit ==
    /\ fn = "cleanup_whitespace"
    /\ fpc = "call"
    /\ arg \in CleanTexts
    /\ locals = <<>>
    /\ ret = NONE
    /\ VerifyIdle
    /\ ExtractIdle
    /\ RegistryIdle
    /\ PipelineIdle

\* the two re.sub and the strip
CleanOnce ==
    /\ fn = "cleanup_whitespace"
    /\ fpc = "call"
    /\ ret' = cleanup_whitespace(arg)
    /\ fpc' = "cleaned"
    /\ UNCHANGED <<fn, arg, locals, outsideFrame>>

\* the same clean-up on the text it returned; locals keeps the first result
CleanAgain ==
    /\ fn = "cleanup_whitespace"
    /\ fpc = "cleaned"
    /\ locals' = ret
    /\ ret' = cleanup_whitespace(ret)
    /\ fpc' = "again"
    /\ UNCHANGED <<fn, arg, outsideFrame>>

CleanNext ==
    \/ CleanOnce
    \/ CleanAgain

CleanSpec == CleanInit /\ [][CleanNext]_vars

(* C26: the whitespace clean-up applied to a text it has already cleaned   *)
(* returns that text unchanged, for every text.                            *)
C26_CleanupIdempotent ==
    (fn = "cleanup_whitespace" /\ fpc = "again") => ret = locals

C26_Witness ==
    /\ fn = "cleanup_whitespace"
    /\ fpc = "again"
    /\ locals # arg
    /\ locals # <<>>
    /\ \E i \in 1..Len(locals) : IsWs(locals[i])

----------------------------------------------------------------------------
(* The verification summary appended to the report.  A case may hold a     *)
(* list verified_links, of which only the status of each link matters,     *)
(* and a list broken_links, of which only the length matters.  The         *)
(* percentage is kept in tenths of a percent, as the format .1f prints it. *)

MaxCaseLinks == 1
MaxSummaryCases == 2

LinkStatuses == {"working", "broken"}

SummaryCases ==
    [has_verified : {TRUE}, verified_links : SeqsUpTo(LinkStatuses, MaxCaseLinks),
     has_broken : {TRUE}, broken_links : 0..MaxCaseLinks]
    \cup
    [has_verified : {TRUE}, verified_links : SeqsUpTo(LinkStatuses, MaxCaseLinks),
     has_broken : {FALSE}, broken_links : {0}]
    \cup
    [has_verified : {FALSE}, verified_links : {<<>>},
     has_broken : {TRUE}, broken_links : 0..MaxCaseLinks]
    \cup
    [has_verified : {FALSE}, verified_links : {<<>>},
     has_broken : {FALSE}, broken_links : {0}]

SummaryInputs == SeqsUpTo(SummaryCases, MaxSummaryCases)

\* The percentage is a Python float, an IEEE 754 binary64 number: the
\* division and the multiplication are each rounded to 53 significant bits,
\* ties to even, and the format .1f rounds the exact value of the product
\* to one decimal, ties to even.  A significand is held as its sequence of
\* bits, least significant first, so that no number exceeds the integers
\* of the checker.  Each step is a function, so that it is applied to numbers and bit
\* sequences that are already computed.
MANT_DIG == 53

\* the bits are worked on this many at a time
CHUNK == 8

\* bits of the quotient computed before it is rounded to MANT_DIG bits
QUOTIENT_CHUNKS == 7

Pow2(k) == 2 ^ k

Bits == Seq({0, 1})

Floats == [m : Bits, scale : Int]

\* the number a sequence of bits stands for
bits_value[b \in Bits] ==
    IF b = <<>> THEN 0 ELSE Head(b) + 2 * bits_value[Tail(b)]

\* the c low bits of v
bits_of[v \in Nat, c \in Nat] == [i \in 1..c |-> (v \div Pow2(i - 1)) % 2]

\* the bits of v up to its highest bit that is set
bits_of_nat[v \in Nat] ==
    IF v = 0 THEN <<>> ELSE <<v % 2>> \o bits_of_nat[v \div 2]

\* the bits of b * k + carry, for a small k
bits_times[b \in Bits, k \in Nat, carry \in Nat] ==
    IF b = <<>> THEN bits_of_nat[carry]
    ELSE LET c == IF Len(b) < CHUNK THEN Len(b) ELSE CHUNK
             s == bits_value[SubSeq(b, 1, c)] * k + carry
         IN  bits_of[s % Pow2(c), c]
                \o bits_times[SubSeq(b, c + 1, Len(b)), k, s \div Pow2(c)]

\* the bits of b + 1
bits_succ[b \in Bits] ==
    IF \A i \in 1..Len(b) : b[i] = 1
    THEN [i \in 1..(Len(b) + 1) |-> IF i > Len(b) THEN 1 ELSE 0]
    ELSE LET j == CHOOSE i \in 1..Len(b) :
                     b[i] = 0 /\ \A h \in 1..(i - 1) : b[h] = 1
         IN  [i \in 1..Len(b) |->
                 IF i < j THEN 0 ELSE IF i = j THEN 1 ELSE b[i]]

\* the bits of b / 2^d rounded to an integer, ties to even
round_bits[b \in Bits, d \in Nat] ==
    IF d = 0 THEN b
    ELSE IF b[d] = 1
            /\ \/ \E i \in 1..(d - 1) : b[i] = 1
               \/ (Len(b) > d /\ b[d + 1] = 1)
    THEN bits_succ[SubSeq(b, d + 1, Len(b))]
    ELSE SubSeq(b, d + 1, Len(b))

\* n chunks of bits of the quotient r / den for r < den, least significant
\* first, below them one bit that tells whether the division left a rest
long_division[r \in Nat, den \in Nat, n \in Nat] ==
    IF n = 0 THEN <<IF r = 0 THEN 0 ELSE 1>>
    ELSE long_division[(r * Pow2(CHUNK)) % den, den, n - 1]
            \o bits_of[(r * Pow2(CHUNK)) \div den, CHUNK]

\* the least e with num * 2^e >= den
shift_up[num \in Nat, den \in Nat] ==
    IF num >= den THEN 0 ELSE 1 + shift_up[2 * num, den]

\* the greatest k with den * 2^k <= num, for num >= den
shift_down[num \in Nat, den \in Nat] ==
    IF num < 2 * den THEN 0 ELSE 1 + shift_down[num, 2 * den]

\* the quotient num / den of two numbers with den <= num < 2 * den, as a
\* significand of MANT_DIG bits
significand[num \in Nat, den \in Nat] ==
    round_bits[long_division[num - den, den, QUOTIENT_CHUNKS] \o <<1>>,
               QUOTIENT_CHUNKS * CHUNK + 2 - MANT_DIG]

\* working_links/total_links for positive counts: the float m * 2^(-scale)
float_div[num \in Nat, den \in Nat] ==
    [m |-> significand[num * Pow2(shift_up[num, den]),
                       den * Pow2(shift_down[num, den])],
     scale |-> shift_up[num, den] - shift_down[num, den] + MANT_DIG - 1]

\* the product of bits p and 2^(-scale), rounded to MANT_DIG bits
float_of[p \in Bits, scale \in Int] ==
    IF Len(p) > MANT_DIG
    THEN [m |-> round_bits[p, Len(p) - MANT_DIG],
          scale |-> scale - (Len(p) - MANT_DIG)]
    ELSE [m |-> p, scale |-> scale]

\* x * k for a float x and a small integer k
float_times[x \in Floats, k \in Nat] == float_of[bits_times[x.m, k, 0], x.scale]

\* the bits t followed by zeros up to the length n
padded[t \in Bits, n \in Nat] ==
    IF Len(t) >= n THEN t ELSE t \o [i \in 1..(n - Len(t)) |-> 0]

\* the digits f"{x:.1f}" prints for a float x, as a number of tenths
format_tenths[x \in Floats] ==
    IF x.scale <= 0 THEN bits_value[bits_times[x.m, 10, 0]] * Pow2(0 - x.scale)
    ELSE bits_value[round_bits[padded[bits_times[x.m, 10, 0], x.scale + 1],
                               x.scale]]

\* a percentage that is 100.0 when nothing was checked
percentage_full_when_empty(working_links, total_links) ==
    IF total_links > 0
    THEN IF working_links = 0 THEN 0
         ELSE format_tenths[float_times[float_div[working_links, total_links],
                                        100]]
    ELSE 1000
\* (working_links/total_links*100) if total_links > 0 else 0, as .1f
percentage_tenths(working_links, total_links) ==
    IF total_links > 0
    THEN IF working_links = 0 THEN 0
         ELSE format_tenths[float_times[float_div[working_links, total_links],
                                        100]]
    ELSE 0

\* len([link for link in case["verified_links"] if status == "working"])
working_in(case) ==
    Len(SelectSeq(case.verified_links, LAMBDA st : st = "working"))

SummaryInit ==
    /\ fn = "verification_summary"
    /\ fpc = "case"
    /\ arg \in SummaryInputs
    /\ locals = [i |-> 1, total_links |-> 0, working_links |-> 0,
                 broken_links |-> 0]
    /\ ret = NONE
    /\ VerifyIdle
    /\ ExtractIdle
    /\ RegistryIdle
    /\ PipelineIdle

\* one pass of the loop over cases
SummaryCase ==
    /\ fn = "verification_summary"
    /\ fpc = "case"
    /\ locals.i <= Len(arg)
    /\ LET case == arg[locals.i]
       IN  locals' =
             [i |-> locals.i + 1,
              total_links |->
                 IF case.has_verified
                 THEN locals.total_links + Len(case.verified_links)
                 ELSE locals.total_links,
              working_links |->
                 IF case.has_verified
                 THEN locals.working_links + working_in(case)
                 ELSE locals.working_links,
              broken_links |->
                 IF case.has_broken
                 THEN locals.broken_links + case.broken_links
                 ELSE locals.broken_links]
    /\ UNCHANGED <<fn, fpc, arg, ret, outsideFrame>>

\* the block is formatted and appended to the report
ReturnSummary ==
    /\ fn = "verification_summary"
    /\ fpc = "case"
    /\ locals.i > Len(arg)
    /\ ret' = [report |-> "report_content",
               total |-> locals.total_links,
               working |-> locals.working_links,
               broken |-> locals.broken_links,
               percentage |-> percentage_tenths(locals.working_links,
                                                locals.total_links)]
    /\ fpc' = "returned"
    /\ UNCHANGED <<fn, arg, locals, outsideFrame>>

SummaryNext ==
    \/ SummaryCase
    \/ ReturnSummary

SummarySpec == SummaryInit /\ [][SummaryNext]_vars

\* the counts, restated over the whole list of cases
RECURSIVE Checked(_)
Checked(cs) ==
    IF cs = <<>> THEN 0
    ELSE (IF Head(cs).has_verified THEN Len(Head(cs).verified_links) ELSE 0)
         + Checked(Tail(cs))

RECURSIVE CheckedWorking(_)
CheckedWorking(cs) ==
    IF cs = <<>> THEN 0
    ELSE (IF Head(cs).has_verified
          THEN Cardinality({k \in 1..Len(Head(cs).verified_links) :
                               Head(cs).verified_links[k] = "working"})
          ELSE 0)
         + CheckedWorking(Tail(cs))

RECURSIVE ListedBroken(_)
ListedBroken(cs) ==
    IF cs = <<>> THEN 0
    ELSE (IF Head(cs).has_broken THEN Head(cs).broken_links ELSE 0)
         + ListedBroken(Tail(cs))

(* C27: the summary block states the number of links checked, of working   *)
(* links and of broken links and the percentage of working links to one    *)
(* decimal; the percentage is 0.0 when no link was found, and the block is *)
(* always produced.                                                        *)
C27_SummaryCounts ==
    /\ (fn = "verification_summary" /\ fpc = "case") => ENABLED SummaryNext
    /\ (fn = "verification_summary" /\ fpc = "returned") =>
          /\ ret.report = "report_content"
          /\ ret.total = Checked(arg)
          /\ ret.working = CheckedWorking(arg)
          /\ ret.broken = ListedBroken(arg)
          /\ ret.total = 0 => ret.percentage = 0
          /\ ret.total > 0 =>
                LET off == ret.percentage * ret.total - 1000 * ret.working
                IN  2 * off <= ret.total /\ -2 * off <= ret.total

C27_Witness ==
    /\ fn = "verification_summary"
    /\ fpc = "returned"
    /\ Len(arg) = 2
    /\ ret.total = 0
    /\ ret.broken = 2
    /\ ret.percentage = 0

----------------------------------------------------------------------------
(* _read_pdf_text inside the loop over the PDF files.  A document is the   *)
(* sequence of the outcomes of page.extract_text(): "text" (a non-empty    *)
(* text), "empty" (None or "") and "raises".  The excerpt of a document is *)
(* the sequence of the numbers of the pages whose text was kept.           *)

MaxPages == 2

PageOutcomes == {"text", "empty", "raises"}

Documents == SeqsUpTo(PageOutcomes, MaxPages)

PdfFiles == UNION {[1..m -> Documents] : m \in 1..MaxDocs}

ReadInit ==
    /\ fn = "read_pdf_files"
    /\ fpc = "page"
    /\ arg \in PdfFiles
    /\ locals = [i |-> 1, page |-> 1, text_parts |-> <<>>,
                 files_payload |-> <<>>]
    /\ ret = NONE
    /\ VerifyIdle
    /\ ExtractIdle
    /\ RegistryIdle
    /\ PipelineIdle

ReadAtPage ==
    /\ fn = "read_pdf_files"
    /\ fpc = "page"
    /\ locals.i <= Len(arg)
    /\ locals.page <= Len(arg[locals.i])

\* files_payload.append({"file": basename, "excerpt": text})
payload_with(payload, i, text_parts) ==
    Append(payload, [file |-> i, excerpt |-> text_parts])

\* page_text is non-empty: text_parts.append(page_text)
PageText ==
    /\ ReadAtPage
    /\ arg[locals.i][locals.page] = "text"
    /\ locals' = [locals EXCEPT !.page = @ + 1,
                                !.text_parts = Append(@, locals.page)]
    /\ UNCHANGED <<fn, fpc, arg, ret, outsideFrame>>

\* page_text is "": nothing is appended
PageEmpty ==
    /\ ReadAtPage
    /\ arg[locals.i][locals.page] = "empty"
    /\ locals' = [locals EXCEPT !.page = @ + 1]
    /\ UNCHANGED <<fn, fpc, arg, ret, outsideFrame>>

\* extract_text raises: the except around the loop ends the reading of the
\* document, and the text read so far is its excerpt
PageRaises ==
    /\ ReadAtPage
    /\ arg[locals.i][locals.page] = "raises"
    /\ locals' = [i |-> locals.i + 1, page |-> 1, text_parts |-> <<>>,
                  files_payload |-> payload_with(locals.files_payload,
                                                 locals.i, locals.text_parts)]
    /\ UNCHANGED <<fn, fpc, arg, ret, outsideFrame>>

\* the pages are exhausted: the document joins files_payload
DocumentRead ==
    /\ fn = "read_pdf_files"
    /\ fpc = "page"
    /\ locals.i <= Len(arg)
    /\ locals.page > Len(arg[locals.i])
    /\ locals' = [i |-> locals.i + 1, page |-> 1, text_parts |-> <<>>,
                  files_payload |-> payload_with(locals.files_payload,
                                                 locals.i, locals.text_parts)]
    /\ UNCHANGED <<fn, fpc, arg, ret, outsideFrame>>

\* the loop over pdf_files is over
FilesRead ==
    /\ fn = "read_pdf_files"
    /\ fpc = "page"
    /\ locals.i > Len(arg)
    /\ ret' = locals.files_payload
    /\ fpc' = "returned"
    /\ UNCHANGED <<fn, arg, locals, outsideFrame>>

ReadNext ==
    \/ PageText
    \/ PageEmpty
    \/ PageRaises
    \/ DocumentRead
    \/ FilesRead

ReadSpec == ReadInit /\ [][ReadNext]_vars

\* the pages of a document that have a text
TextPages(doc) == {k \in 1..Len(doc) : doc[k] = "text"}

(* C28: a page whose extraction fails is skipped and is not fatal: the     *)
(* pages after it in the same document are still extracted, the document   *)
(* is in the files list, the documents after it are read and the loop      *)
(* ends normally.                                                          *)
C28_FailedPageSkipped ==
    /\ (fn = "read_pdf_files" /\ fpc = "page") => ENABLED ReadNext
    /\ (fn = "read_pdf_files" /\ fpc = "returned") =>
          /\ Len(ret) = Len(arg)
          /\ \A i \in 1..Len(ret) :
                /\ ret[i].file = i
                /\ Range(ret[i].excerpt) = TextPages(arg[i])

----------------------------------------------------------------------------
\* the HEAD requests that were answered or failed
Answered == SelectSeq(outcomes, LAMBDA o : o.kind \in {"status", "exception"})

\* the HEAD requests issued and not yet answered
InFlight == Len(heads) - Len(Answered)

(* C29: the link checks of a request run one at a time: at most one HEAD   *)
(* request is unanswered, the requests are issued in the order of the      *)
(* links, and the request of a link is issued only when the check of every *)
(* link before it has finished.                                            *)
C29_OneCheckAtATime ==
    /\ InFlight \in {0, 1}
    /\ InFlight = 1 <=> vpc = "head"
    /\ \A k \in 1..Len(heads) : \A j \in 1..Len(heads) :
          k < j => heads[k] < heads[j]
    /\ vpc = "head" =>
          /\ heads[Len(heads)] = vi
          /\ Len(outcomes) = vi - 1

C29_Witness ==
    /\ vpc = "head"
    /\ vi = 2
    /\ heads = <<1, 2>>
    /\ Len(outcomes) = 1

----------------------------------------------------------------------------
(* ConnectionManager and websocket_endpoint.  A channel is one WebSocket   *)
(* with the client id of its path; it is connected once and disconnects    *)
(* once.  active_connections is the dictionary of the manager, from client *)
(* ids to channels.                                                        *)

MaxChannels == 3

Channels == 1..MaxChannels

ClientIds == {"a", "b"}

\* self.active_connections[client_id] = websocket
registry_with(reg, client_id, websocket) ==
    [x \in (DOMAIN reg) \cup {client_id} |->
        IF x = client_id THEN websocket ELSE reg[x]]

\* a disconnect that empties the registry
registry_cleared(reg, client_id) == <<>>
\* if client_id in self.active_connections: del ...[client_id]
registry_without(reg, client_id) ==
    IF (DOMAIN reg) \ {client_id} = {} THEN <<>>
    ELSE [x \in (DOMAIN reg) \ {client_id} |-> reg[x]]

RegistryInit ==
    /\ active_connections = <<>>
    /\ channels = [ch \in Channels |-> [state |-> "new", client_id |-> NONE]]
    /\ VerifyIdle
    /\ ExtractIdle
    /\ FrameIdle
    /\ PipelineIdle

\* websocket_endpoint: await manager.connect(websocket, client_id)
Connect(ch, client_id) ==
    /\ channels[ch].state = "new"
    /\ channels' = [channels EXCEPT ![ch] = [state |-> "open",
                                             client_id |-> client_id]]
    /\ active_connections' = registry_with(active_connections, client_id, ch)
    /\ UNCHANGED <<pipeVars, verVars, extVars, frameVars>>

\* websocket_endpoint: except WebSocketDisconnect: manager.disconnect
ChannelDisconnect(ch) ==
    /\ channels[ch].state = "open"
    /\ channels' = [channels EXCEPT ![ch].state = "closed"]
    /\ active_connections' =
          registry_without(active_connections, channels[ch].client_id)
    /\ UNCHANGED <<pipeVars, verVars, extVars, frameVars>>

RegistryNext ==
    \/ \E ch \in Channels : \E client_id \in ClientIds : Connect(ch, client_id)
    \/ \E ch \in Channels : ChannelDisconnect(ch)

RegistrySpec == RegistryInit /\ [][RegistryNext]_vars

\* the entry of an id is the same before and after the step
EntryKept(id) ==
    /\ (id \in DOMAIN active_connections) <=> (id \in DOMAIN active_connections')
    /\ (id \in DOMAIN active_connections) =>
          active_connections'[id] = active_connections[id]

(* C30: connect(ws, id) makes id map to ws, disconnect(id) removes the     *)
(* entry of id, both leave every other entry as it was, a disconnect of an *)
(* id that is not registered changes nothing, and nothing else changes the *)
(* registry, so that an id is registered exactly from a connect to the     *)
(* next disconnect of that id.                                             *)
C30_RegistryFrame ==
    [][ /\ \A ch \in Channels :
             /\ (channels[ch].state = "new" /\ channels'[ch].state = "open") =>
                   LET id == channels'[ch].client_id
                   IN  /\ id \in DOMAIN active_connections'
                       /\ active_connections'[id] = ch
                       /\ \A other \in ClientIds \ {id} : EntryKept(other)
             /\ (channels[ch].state = "open" /\ channels'[ch].state = "closed") =>
                   LET id == channels[ch].client_id
                   IN  /\ id \notin DOMAIN active_connections'
                       /\ \A other \in ClientIds \ {id} : EntryKept(other)
                       /\ (id \notin DOMAIN active_connections) =>
                             active_connections' = active_connections
        /\ (channels' = channels) => (active_connections' = active_connections)
      ]_vars

C30_Witness ==
    /\ channels # <<>>
    /\ \E c1 \in Channels : \E c2 \in Channels \ {c1} :
       \E c3 \in Channels \ {c1, c2} :
          /\ channels[c1] = [state |-> "closed", client_id |-> "a"]
          /\ channels[c2] = [state |-> "closed", client_id |-> "a"]
          /\ channels[c3] = [state |-> "open", client_id |-> "b"]
          /\ DOMAIN active_connections = {"b"}
          /\ active_connections["b"] = c3

----------------------------------------------------------------------------
(* C39: while a channel is connected its client id is registered and maps  *)
(* to a connected channel, under every interleaving of the connects and    *)
(* disconnects of several channels, two channels of one client id          *)
(* included.                                                               *)
C39_ConnectedStaysRegistered ==
    channels # <<>> =>
        \A ch \in Channels :
            channels[ch].state = "open" =>
                /\ channels[ch].client_id \in DOMAIN active_connections
                /\ channels[active_connections[channels[ch].client_id]].state
                      = "open"

----------------------------------------------------------------------------
\* the digits that follow the marker word of a title
RECURSIVE DigitRun(_, _)
DigitRun(title, k) ==
    IF k <= Len(title) /\ title[k] \in Range(DIGITS)
    THEN <<title[k]>> \o DigitRun(title, k + 1)
    ELSE <<>>

(* C38: the numbers of the returned cases are 1, 2, ..., k in order, and   *)
(* the record of number N was started by a marker line of number N, never  *)
(* by the line of another number of which N is a digit prefix.             *)
C38_NumbersAreExact ==
    (fn = "extract_cases_from_text" /\ fpc = "returned") =>
        \A i \in 1..Len(ret) :
            /\ ret[i].number = i
            /\ DigitRun(ret[i].title, 2) = Digits(i)

----------------------------------------------------------------------------
(* C37: in the summary block the total equals the number of working links  *)
(* plus the number of broken links.                                        *)
C37_TotalIsWorkingPlusBroken ==
    (fn = "verification_summary" /\ fpc = "returned") =>
        ret.total = ret.working + ret.broken

----------------------------------------------------------------------------
(* C36: link verification leaves every working link untouched: the span    *)
(* of a link taken for working is in the report after the pass with the    *)
(* url it had before, also when several links share their text.            *)
C36_WorkingLinksUntouched ==
    vpc = "returned" =>
        \A i \in 1..Len(outcomes) :
            Working(i) => links[i] \in Range(report_content)

----------------------------------------------------------------------------
\* a website, country, characteristics or http line
FieldLine(line) ==
    line # <<>> /\
    line_kind(line) \in {"website", "country", "characteristics", "links"}

(* C35: every record of extract_companies_from_text has a name: a website, *)
(* country, characteristics or http line met while no record is in         *)
(* progress is dropped and creates no record, and the record in progress   *)
(* at the end of the text is flushed to the output.                        *)
C35_EveryRecordNamed ==
    [][ /\ \A k \in 1..Len(companies') : "name" \in DOMAIN companies'[k]
        /\ (xpc = "line" /\ xi <= Len(lines) /\ FieldLine(lines[xi])
              /\ DOMAIN current_company = {}) =>
                 /\ DOMAIN current_company' = {}
                 /\ companies' = companies
        /\ (xpc = "line" /\ xpc' = "returned"
              /\ DOMAIN current_company # {}) =>
                 /\ companies' = companies \o <<current_company>>
                 /\ "name" \in DOMAIN current_company
      ]_vars

C35_Witness ==
    /\ xpc = "returned"
    /\ Len(lines) = 3
    /\ FieldLine(lines[1])
    /\ FieldLine(lines[3])
    /\ Len(companies) = 1
    /\ companies[1] = current_company
    /\ DOMAIN companies[1] = {"name", line_kind(lines[3])}

----------------------------------------------------------------------------
MaxFiles == 12

\* the per-document progress for every number of files up to MaxFiles
DocProgressInRange ==
    \A n \in 1..MaxFiles : \A i \in 0..(n - 1) :
        /\ doc_progress(i, n) \in 10..50
        /\ (i + 1 < n) => doc_progress(i, n) <= doc_progress(i + 1, n)

(* C31: every update of every stage carries an integer progress in 0..100  *)
(* and a status among active, completed and error; the per-document        *)
(* progress of the local-documents stage lies in 10..50 and does not       *)
(* decrease from one document to the next.                                 *)
C31_UpdatesWellFormed ==
    /\ \A k \in 1..Len(updates) :
          /\ updates[k].progress \in 0..100
          /\ updates[k].status \in {"active", "completed", "error"}
          /\ updates[k].stage \in Range(Stages)
    /\ \A i \in 0..(nDocs - 1) :
          /\ doc_progress(i, nDocs) \in 10..50
          /\ (i + 1 < nDocs) =>
                doc_progress(i, nDocs) <= doc_progress(i + 1, nDocs)
    /\ DocProgressInRange

C31_Witness ==
    /\ stage = 2
    /\ pc = "stage_done"
    /\ nDocs = MaxDocs
    /\ \E k \in 1..Len(updates) :
          /\ updates[k].stage = "local_documents"
          /\ updates[k].progress = doc_progress(nDocs - 1, nDocs)
          /\ updates[k].progress > 10
    /\ \E k \in 1..Len(updates) : updates[k].status = "error"

----------------------------------------------------------------------------
(* C32: process_research_background calls create_report once when the      *)
(* pipeline result has success true and never when it has success false;   *)
(* in both cases it sends one completion message, after every stage update *)
(* of the run, which carries report_id on success and the error text on    *)
(* failure.                                                                *)
C32_SaveOnceThenComplete ==
    /\ created <= 1
    /\ Len(completion) <= 1
    /\ result # "success" => created = 0
    /\ (result = "success" /\ bg # "awaiting") => created = 1
    /\ completion # <<>> <=> bg = "finished"
    /\ bg = "finished" =>
          /\ completion[1].after = Len(updates)
          /\ result = "success" =>
                /\ completion[1].success
                /\ completion[1].report_id = "report.id"
                /\ completion[1].error = NONE
          /\ result = "failure" =>
                /\ ~completion[1].success
                /\ completion[1].error = "result.error"
                /\ completion[1].report_id = NONE
    /\ (pc = "done" /\ bg \in {"awaiting", "saved"}) => ENABLED Next

C32_Witness ==
    /\ bg = "finished"
    /\ result = "success"
    /\ created = 1
    /\ updates # <<>>

----------------------------------------------------------------------------
(* C33: _call_deepseek finishes by returning a string or by raising: each  *)
(* time the while condition is tested it holds, so the loop is never left  *)
(* through its condition and the call never returns None.                  *)
C33_ReturnsTextOrRaises ==
    /\ pc = "request" => attempt < call_max_retries
    /\ pc = "sleep" => attempt < call_max_retries
    /\ pc = "returned" => callResult \in Texts
    /\ pc = "raised" => (exc # NONE /\ attempt = call_max_retries)

C33_Witness ==
    /\ pc = "returned"
    /\ attempt = call_max_retries - 1
    /\ n503 > 0
    /\ callResult = ""

----------------------------------------------------------------------------
(* C34: the two retry levels multiply and every stage has its own budget:  *)
(* the requests of a stage's model call that are not answered 503 number   *)
(* at most 3 x 5 = 15, whatever the stages before did, and a stage whose   *)
(* wrapper returns the structured failure issued exactly 15.               *)
C34_BudgetsMultiply ==
    /\ stageRequests <= stage_max_retries * call_max_retries
    /\ (pc \in {"stage_done", "done"} /\ stageResult = FAILURE) =>
          stageRequests = stage_max_retries * call_max_retries
    /\ (pc = "attempt" /\ sattempt = 0) => stageRequests = 0

C34_Witness ==
    /\ pc = "done"
    /\ result = "failure"
    /\ stage = 3
    /\ stageRequests = 15
    /\ marketData # NONE

====
